---------------------------- MODULE Spec2Model ----------------------------
(***************************************************************************)
(* Layout core of the CV generator: text wrapping with hyphenation         *)
(* (text_utils.py), height estimation and drawing helpers                  *)
(* (templates/base_template.py), the page-break procedures of the three    *)
(* templates and the two-column coordination (templates/two_column.py,     *)
(* templates/modern.py, templates/minimal.py).                             *)
(*                                                                         *)
(* Lengths (x and y) are in tenths of a point, so that the fractional      *)
(* multipliers of the source (0.2 .. 1.5 times a spacing) stay exact.      *)
(* A text is a sequence of paragraphs (the text split at newlines), a      *)
(* paragraph a sequence of words (split at whitespace), a word a sequence  *)
(* of one-character strings.  A wrapped line is the sequence of the words  *)
(* that the source joins with single spaces; << >> is the empty line.      *)
(***************************************************************************)
EXTENDS Integers, Sequences, FiniteSets, TLC

VARIABLES
    tmpl,          \* the template object in use: "two_column", "modern", "minimal", "base"
    pc,            \* position of the running render (or "idle", "done", "raised")
    doc,           \* the CV data being rendered (shape parameters, see the Doc operators)
    layout,        \* the Layout object of the render
    current_page,  \* BaseTemplate.current_page
    shows,         \* number of canvas.showPage() calls made on the canvas
    canvas,        \* current fill colour and font of the canvas
    log,           \* the drawing operations issued so far, in order
    cur,           \* local variables of the running layout routine (cursors), and
                   \* the number of page-break tests it has evaluated
    call           \* arguments and outcome of the last direct call of a method

vars == <<tmpl, pc, doc, layout, current_page, shows, canvas, log, cur, call>>

NoCall == [op |-> "none"]

-----------------------------------------------------------------------------
(* Glyph metrics and the hyphenation dictionary (external collaborators)   *)

\* reportlab stringWidth: every glyph of a font has the same advance, in
\* tenths of a point: half an em for the body face, 0.6 em for the bold one.
EmTenths(fontName) == IF fontName = "header_font" THEN 6 ELSE 5

CharWidth(font) == (font.size * EmTenths(font.name)) \div 10

\* TextProcessor.get_text_width of a single word (or any run without spaces)
WordWidth(word, font) == Len(word) * CharWidth(font)

SpaceWidth(font) == CharWidth(font)

\* the advance of one glyph: in the Helvetica faces of the default theme the
\* full stop is half as wide as a lower-case letter (278 against 556)
GlyphWidth(ch, font) == IF ch = "." THEN CharWidth(font) \div 2 ELSE CharWidth(font)

\* pyphen: the positions p at which word may be split into word[:p] and
\* word[p:], in increasing order.  The dictionary of the model allows a
\* split before every "c" that leaves at least two characters on each side.
Positions(word) ==
    { p \in 2..(Len(word) - 2) : word[p + 1] = "c" }

RECURSIVE SetToSortedSeq(_)
SetToSortedSeq(S) ==
    IF S = {} THEN << >>
    ELSE LET m == CHOOSE x \in S : \A z \in S : x <= z
         IN  <<m>> \o SetToSortedSeq(S \ {m})

-----------------------------------------------------------------------------
(* text_utils.py: TextProcessor                                            *)

None == << >>

\* width of a joined line: its words plus one space between neighbours
RECURSIVE SumWidths(_, _)
SumWidths(line, font) ==
    IF line = << >> THEN 0
    ELSE WordWidth(Head(line), font) + SumWidths(Tail(line), font)

GetTextWidth(line, font) ==
    IF line = << >> THEN 0
    ELSE SumWidths(line, font) + (Len(line) - 1) * SpaceWidth(font)

\* a scan that goes on after a fitting prefix and keeps the last one
RECURSIVE LastFit(_, _, _, _, _)
LastFit(word, poss, max_width, current_line_width, font) ==
    IF poss = << >> THEN [first |-> None, rest |-> word]
    ELSE LET pos == poss[Len(poss)]
             first_part == Append(SubSeq(word, 1, pos), "-")
         IN  IF current_line_width + WordWidth(first_part, font) <= max_width
             THEN [first |-> first_part, rest |-> SubSeq(word, pos + 1, Len(word))]
             ELSE LastFit(word, SubSeq(poss, 1, Len(poss) - 1), max_width,
                          current_line_width, font)

\* for pos in positions: first fitting prefix, scanned left to right
RECURSIVE FirstFit(_, _, _, _, _)
FirstFit(word, poss, max_width, current_line_width, font) ==
    IF poss = << >> THEN [first |-> None, rest |-> word]
    ELSE LET pos == Head(poss)
             first_part == Append(SubSeq(word, 1, pos), "-")
         IN  IF current_line_width + WordWidth(first_part, font) <= max_width
             THEN [first |-> first_part, rest |-> SubSeq(word, pos + 1, Len(word))]
             ELSE FirstFit(word, Tail(poss), max_width, current_line_width, font)

\* a hyphenation whose remainder starts one character late
hyphenate_word_losing_a_letter(word, max_width, current_line_width, font) ==
    IF Len(word) <= 5 THEN [first |-> None, rest |-> word]
    ELSE LET h == FirstFit(word, SetToSortedSeq(Positions(word)), max_width,
                           current_line_width, font)
         IN  IF h.first = None THEN h ELSE [h EXCEPT !.rest = Tail(@)]

\* a hyphenation at the first dictionary point, whatever the width
hyphenate_word_at_first_point(word, max_width, current_line_width, font) ==
    LET poss == SetToSortedSeq(Positions(word))
    IN  IF Len(word) <= 5 \/ poss = << >> THEN [first |-> None, rest |-> word]
        ELSE [first |-> Append(SubSeq(word, 1, poss[1]), "-"),
              rest |-> SubSeq(word, poss[1] + 1, Len(word))]

hyphenate_word(word, max_width, current_line_width, font) ==
    IF Len(word) <= 5 THEN [first |-> None, rest |-> word]
    ELSE FirstFit(word, SetToSortedSeq(Positions(word)), max_width,
                  current_line_width, font)

Front(s) == SubSeq(s, 1, Len(s) - 1)

\* the loop over the words of one paragraph (text_utils.py 105-145);
\* i is the index of the word being placed.  WrapBroken is the branch of a
\* word that does not fit (126-145), h the outcome of its hyphenation
RECURSIVE WrapWords(_, _, _, _, _, _, _, _), WrapBroken(_, _, _, _, _, _, _, _)
\* the branch of a word that does not fit, starting the line of a
\* hyphenation remainder with a width of zero
WrapBrokenForgettingWidth(words, i, lines, current_line, h, max_width, hyphenate, font) ==
    IF h.first # None
    THEN WrapWords(words, i + 1, Append(lines, Append(current_line, h.first)),
                   IF h.rest # << >> THEN <<h.rest>> ELSE << >>,
                   0, max_width, hyphenate, font)
    ELSE WrapWords(words, i + 1,
                   IF current_line # << >> THEN Append(lines, current_line) ELSE lines,
                   <<words[i]>>, WordWidth(words[i], font), max_width, hyphenate, font)

WrapBroken(words, i, lines, current_line, h, max_width, hyphenate, font) ==
    IF h.first # None
    THEN WrapWords(words, i + 1, Append(lines, Append(current_line, h.first)),
                   IF h.rest # << >> THEN <<h.rest>> ELSE << >>,
                   IF h.rest # << >> THEN WordWidth(h.rest, font) ELSE 0,
                   max_width, hyphenate, font)
    ELSE WrapWords(words, i + 1,
                   IF current_line # << >> THEN Append(lines, current_line) ELSE lines,
                   <<words[i]>>, WordWidth(words[i], font), max_width, hyphenate, font)

WrapWords(words, i, lines, current_line, current_width, max_width, hyphenate, font) ==
    IF i > Len(words)
    THEN IF current_line # << >> THEN Append(lines, current_line) ELSE lines
    ELSE
      LET word == words[i]
          word_width == WordWidth(word, font)
          has_next == i < Len(words)
          sep == IF current_line # << >> THEN SpaceWidth(font) ELSE 0
      IN
      IF current_width + sep + word_width <= max_width
      THEN
        LET line1 == Append(current_line, word)
            width1 == current_width + sep + word_width
            orphan == /\ has_next
                      /\ Len(words[i + 1]) <= 3
                      /\ width1 + SpaceWidth(font) + WordWidth(words[i + 1], font) > max_width
                      /\ Len(line1) > 1
        IN  IF orphan
            THEN WrapWords(words, i + 1, Append(lines, Front(line1)), <<word>>,
                           word_width, max_width, hyphenate, font)
            ELSE WrapWords(words, i + 1, lines, line1, width1, max_width, hyphenate, font)
      ELSE
        WrapBroken(words, i, lines, current_line,
                   IF hyphenate /\ Len(word) > 5
                   THEN hyphenate_word(word, max_width, current_width + sep, font)
                   ELSE [first |-> None, rest |-> word],
                   max_width, hyphenate, font)

\* the loop over the paragraphs (text_utils.py 94-156)
RECURSIVE WrapParagraphs(_, _, _, _, _, _)
WrapParagraphs(paragraphs, k, result_lines, max_width, hyphenate, font) ==
    IF k > Len(paragraphs) THEN result_lines
    ELSE LET paragraph == paragraphs[k]
         IN  IF paragraph = << >>
             THEN WrapParagraphs(paragraphs, k + 1, Append(result_lines, << >>),
                                 max_width, hyphenate, font)
             ELSE LET lines == WrapWords(paragraph, 1, << >>, << >>, 0,
                                         max_width, hyphenate, font)
                      sep == IF paragraph # paragraphs[Len(paragraphs)]
                             THEN << << >> >> ELSE << >>
                  IN  WrapParagraphs(paragraphs, k + 1, result_lines \o lines \o sep,
                                     max_width, hyphenate, font)

RECURSIVE TrimTrailing(_)
TrimTrailing(result_lines) ==
    IF result_lines # << >> /\ result_lines[Len(result_lines)] = << >>
    THEN TrimTrailing(Front(result_lines))
    ELSE result_lines

\* "not text": the empty string, i.e. a single paragraph without any word
IsEmptyText(text) == text = << >> \/ text = << << >> >>

wrap_text(text, max_width, hyphenate, font) ==
    IF IsEmptyText(text) THEN << >>
    ELSE TrimTrailing(WrapParagraphs(text, 1, << >>, max_width, hyphenate, font))

\* TextProcessor.get_text_width of a string given as its characters
RECURSIVE StringWidth(_, _)
StringWidth(chars, font) ==
    IF chars = << >> THEN 0
    ELSE GlyphWidth(Head(chars), font) + StringWidth(Tail(chars), font)

Ellipsis == <<".", ".", ".">>

\* for i in range(len(text), 0, -1): the longest prefix that fits with the
\* ellipsis, or the ellipsis alone (text_utils.py 185-190)
RECURSIVE LongestFit(_, _, _, _)
LongestFit(text, i, max_width, font) ==
    IF i = 0 THEN Ellipsis
    ELSE LET truncated == SubSeq(text, 1, i)
         IN  IF StringWidth(truncated \o Ellipsis, font) <= max_width
             THEN truncated \o Ellipsis
             ELSE LongestFit(text, i - 1, max_width, font)

\* TextProcessor.truncate_with_ellipsis (164-190)
truncate_with_ellipsis(text, max_width, font) ==
    IF StringWidth(text, font) <= max_width THEN text
    ELSE LET ellipsis_width == StringWidth(Ellipsis, font)
         IN  IF max_width <= ellipsis_width THEN Ellipsis
             ELSE LongestFit(text, Len(text), max_width, font)

\* TextProcessor.estimate_text_height (192-206); font is the processor's
estimate_text_height(text, max_width, line_height, hyphenate, font) ==
    Len(wrap_text(text, max_width, hyphenate, font)) * line_height

\* an estimate that wraps without regard to the hyphenation flag
estimate_text_block_height_unhyphenated(text, max_width, font, line_height, hyphenate) ==
    Len(wrap_text(text, max_width, FALSE, font)) * line_height

\* CanvasHelper.estimate_text_block_height (335-362)
estimate_text_block_height(text, max_width, font, line_height, hyphenate) ==
    Len(wrap_text(text, max_width, hyphenate, font)) * line_height

\* CanvasHelper.estimate_bulleted_text_height (364-396)
estimate_bulleted_text_height(text, max_width, bullet_width, font, line_height, hyphenate) ==
    LET adjusted_width == max_width - bullet_width - 50
    IN  Len(wrap_text(text, adjusted_width, hyphenate, font)) * line_height

-----------------------------------------------------------------------------
(* theme.py, layout.py: the resolved Theme and Layout of a render          *)

inch == 720

line_spacing == 130
paragraph_spacing == 90
section_spacing == 220
body_font_size == 115
header_font_size == 140

\* x * (t / 10), for the fractional multipliers of the source
Times(x, t) == (x * t) \div 10

BodyFont == [name |-> "body_font", size |-> body_font_size]
HeaderFont == [name |-> "header_font", size |-> header_font_size]
\* header face at body size: institution, company and project titles
TitleFont == [name |-> "header_font", size |-> body_font_size]
IconFont == [name |-> "FontAwesome", size |-> 120]

\* Layout.left_column_width
left_column_width == (layout.page_size[1] * layout.left_column_width_ratio) \div 100

\* the top-of-content cursor of the two-column template
ContentTopTC == layout.page_size[2] - layout.banner_height - layout.top_margin
\* of the minimal template (below its 1.5 inch header)
ContentTopMin == layout.page_size[2] - layout.top_margin - Times(inch, 15)
\* of the base class and the modern template
ContentTopBase == layout.page_size[2] - layout.top_margin

-----------------------------------------------------------------------------
(* cv_data.py: the document.  doc holds the shape of the data; the         *)
(* accessors below expand it.  Texts are named; TextOf gives their words.  *)

wAb == <<"a", "b">>
wAbcab == <<"a", "b", "c", "a", "b">>
wAbcabc == <<"a", "b", "c", "a", "b", "c">>
wAbcabcab == <<"a", "b", "c", "a", "b", "c", "a", "b">>

TextOf(id) ==
    CASE id = "none"   -> << << >> >>
      [] id = "short"  -> << <<wAbcab>> >>
      [] id = "medium" -> << <<wAbcabc, wAb, wAbcab>> >>
      [] id = "long"   -> << <<wAbcabc, wAb, wAbcabcab, wAbcab, wAb, wAbcabcab, wAbcabc>> >>
      \* eighteen characters: one line at the right column's width, two
      \* lines at a width ten points smaller
      [] id = "wide"   -> << <<wAbcabc, wAbcab, wAbcab>> >>

\* CVData.has_section(name): the key is present and its value is truthy
has_section(name) ==
    CASE name = "technical_skills" -> doc.nSkills > 0
      [] name = "education"        -> doc.edu >= 0
      [] name = "profile"          -> doc.nProfile > 0
      [] name = "experience"       -> doc.nCompanies > 0
      [] name = "projects"         -> doc.nProjects > 0
      [] name = "additional_info"  -> doc.nInfo > 0

\* get_technical_skills(): category -> list of skills, in insertion order
get_technical_skills == [k \in 1..doc.nSkills |-> <<doc.leftText>>]

\* the name of every skill category, followed by its colon
CategoryLabel == wAbcab \o <<":">>

\* len(s) of the string whose words are line
RECURSIVE SumLen(_)
SumLen(line) == IF line = << >> THEN 0 ELSE Len(Head(line)) + SumLen(Tail(line))

StrLen(line) == IF line = << >> THEN 0 ELSE SumLen(line) + Len(line) - 1

\* get_profile_data().split('\n\n')
get_profile_paragraphs == [k \in 1..doc.nProfile |-> doc.rightText]

\* get_education_data().get("items", []); doc.edu = -1 stands for a
\* document without an "education" key
get_education_items ==
    [k \in 1..doc.edu |->
        [institution |-> doc.leftText, degree |-> "short", duration |-> "short"]]

get_additional_info == [k \in 1..doc.nInfo |-> doc.leftText]

get_companies ==
    [k \in 1..doc.nCompanies |->
        [name |-> "short", totalDuration |-> "short", startDate |-> TRUE,
         isCurrent |-> FALSE,
         roles |-> [j \in 1..k |->
                      [title |-> doc.rightText,
                       responsibilities |-> <<doc.rightText>>]]]]

get_projects_data ==
    [k \in 1..doc.nProjects |-> [title |-> "short", description |-> doc.rightText]]

\* get_references(): the default sentence unless the key holds ""
get_references == IF doc.references THEN "medium" ELSE "none"

-----------------------------------------------------------------------------
(* The canvas and the drawing log.  A render state s is a record           *)
(* [page, shows, fill, font, log, checks]: current_page, the number of     *)
(* showPage calls, the canvas fill colour and font, the operations issued, *)
(* and the number of page-break tests the render has evaluated.            *)

Ev(op, col, sec, idx, s, top, bot) ==
    [op |-> op, col |-> col, sec |-> sec, idx |-> idx,
     page |-> s.page, top |-> top, bot |-> bot, fill |-> s.fill, font |-> s.font,
     est |-> 0]

Emit(s, e) == [s EXCEPT !.log = Append(@, e)]

\* bookkeeping of the model: a block (entry, paragraph, bullet) checked with
\* the estimate est was drawn from cursor top down to cursor bot
Block(s, col, sec, idx, est, top, bot) ==
    Emit(s, [Ev("block", col, sec, idx, s, top, bot) EXCEPT !.est = est])

\* the statements of a loop run one after the other: an iteration starts
\* from the render state the previous one left, on a page numbered from 1
\* (BaseTemplate.__init__ sets current_page = 1, start_new_page adds one)
Started(s) == s.page >= 1

SetFill(s, colour) == [s EXCEPT !.fill = colour]
SetFont(s, font) == [s EXCEPT !.font = font]

\* a drawing operation issued in the graphics state of s
Draw(s, op, col, sec, idx, top, bot) == Emit(s, Ev(op, col, sec, idx, s, top, bot))

\* A routine that draws takes and returns the canvas state together with
\* its cursor, at = [s |-> state, y |-> cursor]:
\*   y -= d
Down(at, d) == [at EXCEPT !.y = @ - d]
\* one more page-break test has been evaluated
Checked(at) == [at EXCEPT !.s.checks = @ + 1]
\*   canvas.setFillColor(colour), canvas.setFont(font)
Fill(at, colour) == [at EXCEPT !.s = SetFill(@, colour)]
Font(at, font) == [at EXCEPT !.s = SetFont(@, font)]
\*   a drawing operation at the cursor that covers height below it
Mark(at, op, col, sec, idx, height) ==
    [at EXCEPT !.s = Draw(@, op, col, sec, idx, at.y, at.y - height)]
\*   the block checked with est began at cursor top and ends at the cursor
Blocked(at, col, sec, idx, est, top) ==
    [at EXCEPT !.s = Block(@, col, sec, idx, est, top, at.y)]
\*   a drawing operation that covers height, after which the cursor is below it
Stamp(at, op, col, sec, idx, height) == Down(Mark(at, op, col, sec, idx, height), height)

\* canvas.showPage(): ends the page; the graphics state falls back to the
\* canvas defaults
showPage(s) ==
    [Draw(s, "showPage", "-", "-", 0, 0, 0)
        EXCEPT !.shows = @ + 1, !.fill = "black",
               !.font = [name |-> "Helvetica", size |-> 120]]

-----------------------------------------------------------------------------
(* templates/base_template.py                                              *)

\* a start_new_page that ends the page but leaves current_page alone
start_new_page_base_keeping_page(s) ==
    LET s1 == showPage(s)
        s4 == Draw(SetFont(s1, BodyFont), "setFont", "-", "-", 0, 0, 0)
    IN  Draw(SetFill(s4, "text_color"), "setFillColor", "-", "-", 0, 0, 0)

\* BaseTemplate.start_new_page (132-146)
start_new_page_base(s) ==
    LET s1 == showPage(s)
        s2 == [s1 EXCEPT !.page = @ + 1]
        s4 == Draw(SetFont(s2, BodyFont), "setFont", "-", "-", 0, 0, 0)
    IN  Draw(SetFill(s4, "text_color"), "setFillColor", "-", "-", 0, 0, 0)

\* BaseTemplate.calculate_text_height (294-328)
calculate_text_height(text, max_width, font, line_height, hyphenate) ==
    LET lines == wrap_text(text, max_width, hyphenate, font)
    IN  Len(lines) * line_height

\* BaseTemplate.calculate_bulleted_text_height (330-359)
calculate_bulleted_text_height(text, max_width, bullet_width, font, line_height, hyphenate) ==
    LET adjusted_width == max_width - bullet_width
    IN  calculate_text_height(text, adjusted_width, font, line_height, hyphenate)

\* BaseTemplate.draw_wrapped_text (361-457).  The justify branch lays the
\* pre-wrapped lines out with leading line_height and leaves the canvas font
\* alone; the other branches set the font and step down one line_height per
\* line.  colour = "" stands for color=None; the fill colour at the end is
\* the one at the start either way (original_color is restored if color
\* was given, and nothing changes it otherwise).
draw_wrapped_text(at, text, max_width, line_height, indent, font, hyphenate, alignment, colour, col, sec, idx) ==
    LET a1 == IF colour # "" THEN Fill(at, colour) ELSE at
        a2 == IF alignment = "justify" THEN a1 ELSE Font(a1, font)
        lines == wrap_text(text, max_width - indent, hyphenate, font)
    IN  Fill(Stamp(a2, "text", col, sec, idx, Len(lines) * line_height), at.s.fill)

BulletWidth(font) == CharWidth(font)

\* BaseTemplate.draw_bulleted_text (459-534); the logged fill is the colour
\* in which the bullet glyph is painted
draw_bulleted_text(at, text, max_width, line_height, font, hyphenate, bullet_color, text_color, col, sec, idx) ==
    LET a1 == Font(at, font)
        bullet_width == BulletWidth(font)
        original_color == at.s.fill
        a2 == IF bullet_color # "" THEN Fill(a1, bullet_color) ELSE a1
        text_x_off == bullet_width + 50
        text_width == max_width - text_x_off
        lines == wrap_text(text, text_width, hyphenate, font)
    IN  Fill(Stamp(a2, "bullet", col, sec, idx, Len(lines) * line_height), original_color)

-----------------------------------------------------------------------------
(* Persistent chrome of the three templates                                *)

\* TwoColumnTemplate._draw_contact_details (295-367) reads separator_x
\* (345), which is assigned (316) only when both contact columns, as
\* _calculate_contact_details_width splits them (213-219), are non-empty
DrawContactDetailsRaises ==
    LET max_details == 6
        contact_details == IF doc.nContacts > max_details THEN max_details
                           ELSE doc.nContacts
        half == (contact_details + 1) \div 2
        left_col_details == half
        right_col_details == contact_details - half
    IN  ~(left_col_details > 0 /\ right_col_details > 0)

\* TwoColumnTemplate.draw_banner_and_column_bg (95-200): banner bar in the
\* primary colour, name and contacts in white (the contact routine leaves
\* body font and text colour), then the left column background; the fill
\* colour it leaves behind is the background colour
draw_banner_and_column_bg(s) ==
    LET s1 == SetFill(s, "primary_color")
        s2 == SetFont(SetFill(s1, "white"), [name |-> "header_font", size |-> 220])
        s3 == SetFill(SetFont(s2, BodyFont), "text_color")
        s4 == SetFill(s3, "background_color")
    IN  Draw(s4, "chrome", "-", "-", 0, 0, 0)

\* ModernTemplate.draw_modern_layout (63-77): the sidebar rectangle
draw_modern_layout(s) ==
    Draw(SetFill(s, "primary_color"), "chrome", "-", "-", 0, 0, 0)

\* MinimalTemplate.draw_header (221-266) with draw_contact_details_horizontal
\* (268-344): name in the primary colour, then at most four contact details
\* in the text colour, each setting the 9 pt icon and text fonts
draw_header(s) ==
    LET s1 == SetFill(SetFont(s, [name |-> "header_font", size |-> 180]), "primary_color")
        s2 == SetFill(s1, "text_color")
        s3 == IF doc.nContacts > 0 THEN SetFont(s2, [name |-> "body_font", size |-> 90])
              ELSE s2
    IN  Draw(s3, "chrome", "-", "-", 0, 0, 0)

\* calling the redraw callback handed to check_page_break ("" is None)
Invoke(s, callback) ==
    CASE callback = "" -> s
      [] callback = "draw_banner_and_column_bg" -> draw_banner_and_column_bg(s)
      [] callback = "draw_modern_layout" -> draw_modern_layout(s)
      [] callback = "draw_header" -> draw_header(s)

\* BaseTemplate.check_page_break (536-566)
check_page_break_base(at, needed_height, callback_function) ==
    LET buffer == 150
    IN  IF at.y - needed_height < layout.bottom_margin + buffer
        THEN [s |-> Invoke(start_new_page_base(Checked(at).s), callback_function),
              y |-> layout.page_size[2] - layout.top_margin]
        ELSE Checked(at)

\* a check_page_break that ends two pages when the block does not fit
check_page_break_modern_twice(at, needed_height, redraw_function) ==
    LET buffer == 150
    IN  IF at.y - needed_height < layout.bottom_margin + buffer
        THEN [s |-> Invoke(start_new_page_base(start_new_page_base(Checked(at).s)),
                           redraw_function),
              y |-> layout.page_size[2] - layout.top_margin]
        ELSE Checked(at)

\* ModernTemplate.check_page_break (681-702)
check_page_break_modern(at, needed_height, redraw_function) ==
    LET buffer == 150
    IN  IF at.y - needed_height < layout.bottom_margin + buffer
        THEN [s |-> Invoke(start_new_page_base(Checked(at).s), redraw_function),
              y |-> layout.page_size[2] - layout.top_margin]
        ELSE Checked(at)

\* a check_page_break that also breaks when the block fits exactly
check_page_break_minimal_exact(at, needed_height, redraw_function) ==
    IF at.y - needed_height <= layout.bottom_margin
    THEN [s |-> Invoke(start_new_page_base(Checked(at).s), redraw_function),
          y |-> layout.page_size[2] - layout.top_margin - Times(inch, 15)]
    ELSE Checked(at)

\* MinimalTemplate.check_page_break (779-797)
check_page_break_minimal(at, needed_height, redraw_function) ==
    IF at.y - needed_height < layout.bottom_margin
    THEN [s |-> Invoke(start_new_page_base(Checked(at).s), redraw_function),
          y |-> layout.page_size[2] - layout.top_margin - Times(inch, 15)]
    ELSE Checked(at)

-----------------------------------------------------------------------------
(* templates/two_column.py                                                 *)

\* TwoColumnTemplate.reset_graphics_state (1150-1157)
reset_graphics_state(s) ==
    LET s2 == Draw(SetFill(s, "text_color"), "setFillColor", "-", "-", 0, 0, 0)
    IN  Draw(SetFont(s2, BodyFont), "setFont", "-", "-", 0, 0, 0)

\* a start_new_page that ends the page but leaves current_page alone
start_new_page_keeping_page(s, set_page_number) ==
    reset_graphics_state(showPage(s))

\* TwoColumnTemplate.start_new_page (1138-1148); set_page_number = 0 stands
\* for the default None
start_new_page(s, set_page_number) ==
    LET s1 == showPage(s)
        s2 == IF set_page_number # 0
              THEN [s1 EXCEPT !.page = set_page_number]
              ELSE [s1 EXCEPT !.page = @ + 1]
    IN  reset_graphics_state(s2)

\* TwoColumnTemplate.check_page_break (1099-1136)
check_page_break(at, needed_height, redraw_function) ==
    LET buffer == 50
    IN  IF at.y - needed_height < layout.bottom_margin + buffer
        THEN LET s1 == start_new_page(Checked(at).s, 0)
                 s2 == Invoke(s1, redraw_function)
                 new_y == layout.page_size[2] - layout.banner_height - layout.top_margin
             IN  [s |-> s2, y |-> new_y]
        ELSE Checked(at)

\* TwoColumnTemplate.draw_section_header (1040-1097) and
\* draw_multiline_section_header (440-492); title_lines is the number of
\* lines the title is split into when multiline is requested
draw_section_header(at, title_lines, multiline, col, sec) ==
    LET header_height == IF multiline /\ title_lines > 1
                         THEN title_lines * line_spacing + 100
                         ELSE 200
        a1 == Fill(at, "accent_color")
        a2 == Fill(Font(a1, IconFont), "text_color")
        a3 == Fill(Font(a2, HeaderFont), "text_color")
    IN  Stamp(a3, "header", col, sec, 0, header_height)

\* self.start_new_page(); self.draw_banner_and_column_bg(); y = the top of
\* the content area: the page break the sections of the two-column
\* template perform themselves (566-571, 596-601, 791-796, 976-981, 1020-1023)
NewPage(at) ==
    [s |-> draw_banner_and_column_bg(start_new_page(at.s, 0)), y |-> ContentTopTC]

\* for item in texts: draw_bulleted_text(...); y -= gap
RECURSIVE DrawBullets(_, _, _, _, _, _, _, _, _)
DrawBullets(at, texts, j, max_width, gap, text_color, col, sec, idx) ==
    IF j > Len(texts) \/ ~Started(at.s) THEN at
    ELSE DrawBullets(Down(draw_bulleted_text(at, TextOf(texts[j]), max_width, line_spacing,
                                             BodyFont, TRUE, "", text_color, col, sec, idx),
                          gap),
                     texts, j + 1, max_width, gap, text_color, col, sec, idx)

\* sum(calculate_bulleted_text_height(t, max_width, bullet_width) + extra for t in texts)
RECURSIVE SumBulletHeights(_, _, _, _)
SumBulletHeights(texts, max_width, bullet_width, extra) ==
    IF texts = << >> THEN 0
    ELSE calculate_bulleted_text_height(TextOf(Head(texts)), max_width, bullet_width,
                                        BodyFont, line_spacing, FALSE) + extra
         + SumBulletHeights(Tail(texts), max_width, bullet_width, extra)

\* one category of add_technical_skills_section, from its page-break check
\* on (513-535)
SkillsCategory(at, k, width, total_height) ==
    LET r == check_page_break(at, total_height, "draw_banner_and_column_bg")
        heading == Stamp(Fill(Font(r, TitleFont), "text_color"), "text", "L", "skills", k,
                         Times(line_spacing, 12))
        skills == DrawBullets(heading, get_technical_skills[k], 1, width - 100,
                              Times(line_spacing, 4), "text_color", "L", "skills", k)
    IN  Blocked(Down(skills, Times(line_spacing, 8)), "L", "skills", k, total_height, r.y)

\* the category loop of add_technical_skills_section (507-535)
RECURSIVE SkillsLoop(_, _, _)
SkillsLoop(at, k, width) ==
    IF k > Len(get_technical_skills) \/ ~Started(at.s) THEN at
    ELSE
      LET category_height == Times(line_spacing, 12)
          \* the third positional argument of the source lands in bullet_width
          skills_height == SumBulletHeights(get_technical_skills[k], width - 100,
                                            Times(line_spacing, 8), 0)
          total_height == category_height + skills_height + Times(line_spacing, 12)
      IN  SkillsLoop(SkillsCategory(at, k, width, total_height), k + 1, width)

\* TwoColumnTemplate.add_technical_skills_section (494-537)
add_technical_skills_section(at, width) ==
    IF ~has_section("technical_skills") THEN at
    ELSE Down(SkillsLoop(Down(draw_section_header(at, 2, TRUE, "L", "skills"),
                              Times(line_spacing, 15)),
                         1, width),
              section_spacing)

\* TwoColumnTemplate._estimate_education_item_height (660-695)
_estimate_education_item_height(edu, width) ==
    calculate_text_height(TextOf(edu.institution), width, TitleFont, line_spacing, FALSE)
      + Times(line_spacing, 4)
    + (IF edu.degree # "none"
       THEN calculate_text_height(TextOf(edu.degree), width - 50, BodyFont, line_spacing, FALSE)
              + Times(line_spacing, 5)
       ELSE 0)
    + (IF edu.duration # "none"
       THEN calculate_text_height(TextOf(edu.duration), width - 50, BodyFont, line_spacing, FALSE)
              + Times(line_spacing, 5)
       ELSE 0)
    + Times(paragraph_spacing, 4)

RECURSIVE SumEducation(_, _)
SumEducation(items, width) ==
    IF items = << >> THEN 0
    ELSE _estimate_education_item_height(Head(items), width) + SumEducation(Tail(items), width)

\* one of the details (degree, duration) of an education item (632-647)
DrawDetail(at, detail, width, k) ==
    IF detail = "none" THEN at
    ELSE Down(draw_wrapped_text(at, TextOf(detail), width - 100, line_spacing, 100,
                                BodyFont, TRUE, "left", "text_color", "L", "education", k),
              Times(line_spacing, 5))

\* one item of add_education_section, from its page-break test on (596-652)
EducationItem(at, k, width, needed_height) ==
    LET edu == get_education_items[k]
        r == IF at.y - needed_height < layout.bottom_margin + 50
             THEN Down(draw_section_header(NewPage(Checked(at)), 1, FALSE, "L",
                                           "education"),
                       Times(line_spacing, 12))
             ELSE Checked(at)
        max_width_for_inst == width - 50
        institution == draw_wrapped_text(r, TextOf(edu.institution), max_width_for_inst,
                                         line_spacing, 50, TitleFont, TRUE, "left",
                                         "text_color", "L", "education", k)
        details == DrawDetail(DrawDetail(Down(institution, Times(line_spacing, 4)),
                                         edu.degree, width, k),
                              edu.duration, width, k)
    IN  Blocked(Down(details, Times(paragraph_spacing, 4)),
                "L", "education", k, needed_height, r.y)

\* the item loop of add_education_section (583-652)
RECURSIVE EducationLoop(_, _, _)
EducationLoop(at, k, width) ==
    IF k > Len(get_education_items) \/ ~Started(at.s) THEN at
    ELSE EducationLoop(EducationItem(at, k, width,
                           _estimate_education_item_height(get_education_items[k], width)),
                       k + 1, width)

\* TwoColumnTemplate.add_education_section (539-658)
add_education_section(at, width) ==
    IF ~has_section("education") THEN at
    ELSE
      LET header_height == 200 + Times(line_spacing, 12)
          all_items_height == SumEducation(get_education_items, width)
          total_height == header_height + all_items_height + Times(section_spacing, 8)
          available_height == at.y - layout.bottom_margin - 50
          header == draw_section_header(IF total_height > available_height
                                        THEN NewPage(Checked(at)) ELSE Checked(at),
                                        1, FALSE, "L", "education")
      IN  Down(EducationLoop(Down(header, Times(line_spacing, 12)), 1, width),
               Times(section_spacing, 8))

\* one item of add_more_details_section, from its page-break check on (710-722)
InfoItem(at, k, width, needed_height) ==
    LET r == check_page_break(at, needed_height, "draw_banner_and_column_bg")
        info == draw_bulleted_text(r, TextOf(get_additional_info[k]), width - 100,
                                   line_spacing, BodyFont, TRUE, "", "text_color",
                                   "L", "info", k)
    IN  Down(Blocked(info, "L", "info", k, needed_height, r.y), Times(line_spacing, 6))

\* the item loop of add_more_details_section (708-722)
RECURSIVE MoreDetailsLoop(_, _, _)
MoreDetailsLoop(at, k, width) ==
    IF k > Len(get_additional_info) \/ ~Started(at.s) THEN at
    ELSE MoreDetailsLoop(
             InfoItem(at, k, width,
                      calculate_bulleted_text_height(TextOf(get_additional_info[k]),
                                                     width - 100, 100, BodyFont,
                                                     line_spacing, FALSE)),
             k + 1, width)

\* TwoColumnTemplate.add_more_details_section (697-724)
add_more_details_section(at, width) ==
    IF get_additional_info = << >> THEN at
    ELSE Down(MoreDetailsLoop(Down(draw_section_header(at, 1, FALSE, "L", "info"),
                                   Times(line_spacing, 15)),
                              1, width),
              section_spacing)

\* one paragraph of add_profile_section, from its page-break check on (745-760)
ProfileParagraph(at, k, width, paragraph_height) ==
    LET r == check_page_break(at, paragraph_height, "draw_banner_and_column_bg")
        paragraph == draw_wrapped_text(r, TextOf(get_profile_paragraphs[k]), width,
                                       Times(line_spacing, 13), 50, BodyFont, TRUE,
                                       "justify", "text_color", "R", "profile", k)
    IN  Down(Blocked(paragraph, "R", "profile", k, paragraph_height, r.y),
             Times(line_spacing, 12))

\* the paragraph loop of add_profile_section (740-760)
RECURSIVE ProfileLoop(_, _, _)
ProfileLoop(at, k, width) ==
    IF k > Len(get_profile_paragraphs) \/ ~Started(at.s) THEN at
    ELSE ProfileLoop(
             ProfileParagraph(at, k, width,
                              calculate_text_height(TextOf(get_profile_paragraphs[k]), width,
                                                    BodyFont, Times(line_spacing, 13), FALSE)),
             k + 1, width)

\* TwoColumnTemplate.add_profile_section (726-762)
add_profile_section(at, width) ==
    IF get_profile_paragraphs = << >> THEN at
    ELSE Down(ProfileLoop(Down(draw_section_header(at, 1, FALSE, "R", "profile"),
                               Times(line_spacing, 15)),
                          1, width),
              Times(paragraph_spacing, 5))

\* the words of f"{name} | {start_date} - {end_date}"; end_date is a word
wStart == <<"2", "0", "1", "5">>
wEnd == <<"2", "0", "2", "0">>
wPresent == <<"P", "r", "e", "s", "e", "n", "t">>

CompanyLine(company, end_date) ==
    << TextOf(company.name)[1] \o << <<"|">> >>
       \o (IF company.startDate THEN <<wStart, <<"-">>, end_date>> ELSE << >>) >>

\* the roles of _estimate_company_height (894-914)
RECURSIVE SumRoles(_, _)
SumRoles(roles, width) ==
    IF roles = << >> THEN 0
    ELSE LET role == Head(roles)
             role_title_height ==
                 calculate_text_height(TextOf(role.title), width, BodyFont, line_spacing, FALSE)
                 + Times(line_spacing, 6)
             resp_width == width - 150
             responsibilities_height ==
                 SumBulletHeights(role.responsibilities, resp_width, 100,
                                  Times(line_spacing, 2))
         IN  role_title_height + responsibilities_height + Times(line_spacing, 6)
             + SumRoles(Tail(roles), width)

\* TwoColumnTemplate._estimate_company_height (858-919)
_estimate_company_height(company, width) ==
    LET line_height == line_spacing
        end_date == IF company.isCurrent THEN wPresent ELSE wEnd
        company_line == CompanyLine(company, end_date)
        company_header_height ==
            calculate_text_height(company_line, width, TitleFont, line_spacing, FALSE)
            + Times(line_height, 7)
    IN  company_header_height + SumRoles(company.roles, width) + Times(paragraph_spacing, 4)

\* the role loop of add_experience_section (827-850)
RECURSIVE RolesLoop(_, _, _, _, _)
RolesLoop(at, roles, j, width, k) ==
    IF j > Len(roles) \/ ~Started(at.s) THEN at
    ELSE
      LET responsibilities == roles[j].responsibilities
          title == draw_wrapped_text(at, TextOf(roles[j].title), width, line_spacing, 100,
                                     BodyFont, TRUE, "left", "secondary_color",
                                     "R", "experience", k)
          bullets == DrawBullets(Down(title, Times(line_spacing, 5)), responsibilities, 1,
                                 width - 150, Times(line_spacing, 2), "text_color",
                                 "R", "experience", k)
      IN  RolesLoop(Down(bullets, IF responsibilities # << >>
                                  THEN Times(line_spacing, 6) ELSE 0),
                    roles, j + 1, width, k)

\* one company of add_experience_section, from its page-break test on (787-853)
Company(at, i, width, company_height) ==
    LET company == get_companies[i]
        r == IF at.y - company_height < layout.bottom_margin + 50
             THEN Down(draw_section_header(NewPage(Checked(at)), 1, FALSE, "R",
                                           "experience"),
                       line_spacing)
             ELSE Checked(at)
        \* the first company of the list is always shown as current
        end_date == IF i = 1 \/ company.isCurrent THEN wPresent ELSE wEnd
        header == draw_wrapped_text(r, CompanyLine(company, end_date), width,
                                    line_spacing, 50, TitleFont, TRUE, "left",
                                    "primary_color", "R", "experience", i)
        roles == RolesLoop(Down(header, Times(line_spacing, 6)), company.roles, 1, width, i)
    IN  Blocked(Down(roles, Times(paragraph_spacing, 4)),
                "R", "experience", i, company_height, r.y)

\* the company loop of add_experience_section (780-853)
RECURSIVE CompaniesLoop(_, _, _)
CompaniesLoop(at, i, width) ==
    IF i > Len(get_companies) \/ ~Started(at.s) THEN at
    ELSE CompaniesLoop(Company(at, i, width, _estimate_company_height(get_companies[i], width)),
                       i + 1, width)

\* TwoColumnTemplate.add_experience_section (764-856)
add_experience_section(at, width) ==
    IF get_companies = << >> THEN at
    ELSE CompaniesLoop(Down(draw_section_header(at, 1, FALSE, "R", "experience"),
                            line_spacing),
                       1, width)

\* TwoColumnTemplate._estimate_project_height (921-948)
_estimate_project_height(project, width) ==
    calculate_text_height(TextOf(project.title), width, TitleFont, line_spacing, FALSE)
      + Times(line_spacing, 6)
    + calculate_text_height(TextOf(project.description), width - 100, BodyFont,
                            line_spacing, FALSE)
    + Times(paragraph_spacing, 4)

\* one project of add_projects_section, from its page-break test on (972-1009);
\* only a break before the first project draws the section header again
Project(at, i, width, project_height) ==
    LET project == get_projects_data[i]
        brk == at.y - project_height < layout.bottom_margin + 50
        r == IF brk /\ i = 1
             THEN Down(draw_section_header(NewPage(Checked(at)), 1, FALSE, "R",
                                           "projects"),
                       line_spacing)
             ELSE IF brk THEN NewPage(Checked(at)) ELSE Checked(at)
        title == draw_wrapped_text(r, TextOf(project.title), width, line_spacing, 50,
                                   TitleFont, TRUE, "left", "primary_color",
                                   "R", "projects", i)
        description == draw_wrapped_text(Down(title, Times(line_spacing, 6)),
                                         TextOf(project.description), width - 100,
                                         line_spacing, 50, BodyFont, TRUE, "left",
                                         "text_color", "R", "projects", i)
    IN  Blocked(Down(description, Times(paragraph_spacing, 4)),
                "R", "projects", i, project_height, r.y)

\* the project loop of add_projects_section (965-1009)
RECURSIVE ProjectsLoop(_, _, _)
ProjectsLoop(at, i, width) ==
    IF i > Len(get_projects_data) \/ ~Started(at.s) THEN at
    ELSE ProjectsLoop(Project(at, i, width,
                              _estimate_project_height(get_projects_data[i], width)),
                      i + 1, width)

\* the references block at the end of add_projects_section (1011-1035),
\* from its page-break test on
References(at, width, total_ref_height) ==
    LET r == IF at.y - total_ref_height < layout.bottom_margin + 50
             THEN NewPage(Checked(at)) ELSE Checked(at)
        header == draw_section_header(r, 1, FALSE, "R", "references")
    IN  Blocked(draw_wrapped_text(Down(header, line_spacing), TextOf(get_references), width,
                                  line_spacing, 50, BodyFont, FALSE, "left", "text_color",
                                  "R", "references", 1),
                "R", "references", 1, total_ref_height, r.y)

AddReferences(at, width) ==
    IF get_references = "none" THEN at
    ELSE
      LET ref_header_height == 200 + Times(line_spacing, 12)
          ref_text_height == calculate_text_height(TextOf(get_references), width - 50,
                                                   BodyFont, line_spacing, FALSE)
      IN  References(at, width, ref_header_height + ref_text_height)

\* TwoColumnTemplate.add_projects_section (950-1038)
add_projects_section(at, width) ==
    IF get_projects_data = << >> THEN at
    ELSE AddReferences(ProjectsLoop(Down(draw_section_header(at, 1, FALSE, "R", "projects"),
                                         line_spacing),
                                    1, width),
                       width)

-----------------------------------------------------------------------------
(* templates/minimal.py                                                    *)

\* MinimalTemplate.draw_minimal_section_header (764-777): returns y as given
draw_minimal_section_header(at, sec) ==
    Mark(Fill(Font(at, [name |-> "header_font", size |-> header_font_size + 10]),
              "primary_color"),
         "header", "M", sec, 0, 0)

\* one paragraph of MinimalTemplate.add_profile_section, from its page-break
\* check on (437-449)
MinimalParagraph(at, k, width, paragraph_height) ==
    LET r == check_page_break_minimal(at, paragraph_height, "draw_header")
        paragraph == draw_wrapped_text(r, TextOf(get_profile_paragraphs[k]), width,
                                       Times(line_spacing, 13), 0, BodyFont, TRUE, "left",
                                       "", "M", "profile", k)
    IN  Down(Blocked(paragraph, "M", "profile", k, paragraph_height, r.y), line_spacing)

\* the paragraph loop of MinimalTemplate.add_profile_section (432-449)
RECURSIVE MinimalProfileLoop(_, _, _)
MinimalProfileLoop(at, k, width) ==
    IF k > Len(get_profile_paragraphs) \/ ~Started(at.s) THEN at
    ELSE MinimalProfileLoop(
             MinimalParagraph(at, k, width,
                              calculate_text_height(TextOf(get_profile_paragraphs[k]), width,
                                                    BodyFont, Times(line_spacing, 13), FALSE)),
             k + 1, width)

\* MinimalTemplate.add_profile_section (420-451)
minimal_add_profile_section(at, width) ==
    IF get_profile_paragraphs = << >> THEN at
    ELSE Down(MinimalProfileLoop(Down(draw_minimal_section_header(at, "profile"),
                                      line_spacing),
                                 1, width),
              section_spacing)

\* one category of MinimalTemplate.add_skills_section, from its page-break
\* check on (474-494)
MinimalCategory(at, k, width, needed_height) ==
    LET skills_text == TextOf(get_technical_skills[k][1])
        r == check_page_break_minimal(at, needed_height, "draw_header")
        label == Mark(Fill(Font(r, TitleFont), "text_color"), "text", "M", "skills", k, 0)
        category_width == WordWidth(CategoryLabel, TitleFont)
        same_line == category_width * 4 < width /\ StrLen(skills_text[1]) < 50
        skills == IF same_line
                  THEN Font(label, BodyFont)
                  ELSE draw_wrapped_text(Down(label, line_spacing), skills_text, width - 50,
                                         line_spacing, 100, BodyFont, FALSE, "left", "",
                                         "M", "skills", k)
    IN  Blocked(Down(skills, Times(line_spacing, 12)), "M", "skills", k, needed_height, r.y)

\* the category loop of MinimalTemplate.add_skills_section (463-494)
RECURSIVE MinimalSkillsLoop(_, _, _)
MinimalSkillsLoop(at, k, width) ==
    IF k > Len(get_technical_skills) \/ ~Started(at.s) THEN at
    ELSE
      LET category_text == << <<CategoryLabel>> \o TextOf(get_technical_skills[k][1])[1] >>
      IN  MinimalSkillsLoop(
              MinimalCategory(at, k, width,
                              calculate_text_height(category_text, width, BodyFont,
                                                    line_spacing, FALSE)),
              k + 1, width)

\* MinimalTemplate.add_skills_section (453-496)
minimal_add_skills_section(at, width) ==
    IF get_technical_skills = << >> THEN at
    ELSE Down(MinimalSkillsLoop(Down(draw_minimal_section_header(at, "skills"),
                                     Times(line_spacing, 12)),
                                1, width),
              section_spacing)

\* company name and total duration share a line (minimal.py 529, 599)
DurationFits(company, width) ==
    LET company_name_width ==
            GetTextWidth(TextOf(company.name)[1],
                         [name |-> "header_font", size |-> body_font_size + 10])
        duration_width == GetTextWidth(TextOf(company.totalDuration)[1], BodyFont)
    IN  company_name_width + 200 + duration_width <= width

\* the roles of MinimalTemplate._estimate_company_height (607-617)
RECURSIVE MinimalSumRoles(_, _)
MinimalSumRoles(roles, width) ==
    IF roles = << >> THEN 0
    ELSE LET role == Head(roles)
             role_title_height == line_spacing
             responsibilities_height ==
                 SumBulletHeights(role.responsibilities, width - 200, 100,
                                  Times(line_spacing, 5))
         IN  role_title_height + responsibilities_height + line_spacing
             + MinimalSumRoles(Tail(roles), width)

\* MinimalTemplate._estimate_company_height (586-622)
minimal_estimate_company_height(company, width) ==
    LET line_height == line_spacing
        company_header_height == IF DurationFits(company, width)
                                 THEN Times(line_height, 12)
                                 ELSE line_height * 2
    IN  company_header_height + MinimalSumRoles(company.roles, width) + paragraph_spacing

\* the role loop of MinimalTemplate.add_experience_section (546-579)
RECURSIVE MinimalRolesLoop(_, _, _, _, _)
MinimalRolesLoop(at, roles, j, width, i) ==
    IF j > Len(roles) \/ ~Started(at.s) THEN at
    ELSE
      LET responsibilities == roles[j].responsibilities
          role_height == line_spacing
          resp_height == SumBulletHeights(responsibilities, width - 200, 100,
                                          Times(line_spacing, 5))
          total_role_height == role_height + resp_height + Times(line_spacing, 5)
          r == check_page_break_minimal(at, total_role_height, "draw_header")
          title == Stamp(Fill(Font(r, TitleFont), "secondary_color"),
                         "text", "M", "experience", i, line_spacing)
          bullets == DrawBullets(title, responsibilities, 1, width - 200,
                                 Times(line_spacing, 5), "", "M", "experience", i)
      IN  MinimalRolesLoop(Down(bullets, Times(line_spacing, 5)), roles, j + 1, width, i)

\* one company of MinimalTemplate.add_experience_section, from its
\* page-break check on (512-582)
MinimalCompany(at, i, width, needed_height) ==
    LET company == get_companies[i]
        r == check_page_break_minimal(at, needed_height, "draw_header")
        h == IF r.y = layout.page_size[2] - layout.top_margin - Times(inch, 15)
             THEN Down(draw_minimal_section_header(r, "experience"), Times(line_spacing, 15))
             ELSE r
        name == Mark(Fill(Font(h, [name |-> "header_font", size |-> body_font_size + 10]),
                          "primary_color"),
                     "text", "M", "experience", i, 0)
        duration == Down(Fill(Font(name, BodyFont), "text_color"),
                         IF DurationFits(company, width)
                         THEN Times(line_spacing, 12)
                         ELSE line_spacing + Times(line_spacing, 7))
        roles == MinimalRolesLoop(duration, company.roles, 1, width, i)
    IN  Blocked(Down(roles, paragraph_spacing), "M", "experience", i, needed_height, h.y)

\* the company loop of MinimalTemplate.add_experience_section (508-582)
RECURSIVE MinimalCompaniesLoop(_, _, _)
MinimalCompaniesLoop(at, i, width) ==
    IF i > Len(get_companies) \/ ~Started(at.s) THEN at
    ELSE MinimalCompaniesLoop(
             MinimalCompany(at, i, width,
                            minimal_estimate_company_height(get_companies[i], width)),
             i + 1, width)

\* MinimalTemplate.add_experience_section (498-584)
minimal_add_experience_section(at, width) ==
    IF get_companies = << >> THEN at
    ELSE Down(MinimalCompaniesLoop(Down(draw_minimal_section_header(at, "experience"),
                                        Times(line_spacing, 15)),
                                   1, width),
              section_spacing)

\* one item of MinimalTemplate.add_education_section, from its page-break
\* check on (645-681)
MinimalEducationItem(at, k, width, edu_height) ==
    LET edu == get_education_items[k]
        r == check_page_break_minimal(at, edu_height, "draw_header")
        institution == Mark(Fill(Font(r, TitleFont), "primary_color"),
                            "text", "M", "education", k, 0)
        small == [name |-> "body_font", size |-> body_font_size - 5]
        duration_width == GetTextWidth(TextOf(edu.duration)[1], small)
        institution_width == GetTextWidth(TextOf(edu.institution)[1], TitleFont)
        duration == Down(Fill(Font(institution, small), "text_color"),
                         (IF institution_width + 100 < width - duration_width
                          THEN 0
                          ELSE Times(line_spacing, 8) + Times(line_spacing, 2))
                         + line_spacing)
        degree == IF edu.degree # "none"
                  THEN Down(draw_wrapped_text(duration, TextOf(edu.degree), width - 100,
                                              line_spacing, 0, BodyFont, TRUE, "left", "",
                                              "M", "education", k),
                            line_spacing)
                  ELSE duration
    IN  Blocked(Down(degree, Times(paragraph_spacing, 5)),
                "M", "education", k, edu_height, r.y)

\* the item loop of MinimalTemplate.add_education_section (633-681)
RECURSIVE MinimalEducationLoop(_, _, _)
MinimalEducationLoop(at, k, width) ==
    IF k > Len(get_education_items) \/ ~Started(at.s) THEN at
    ELSE
      LET edu == get_education_items[k]
          edu_height ==
              line_spacing
              + (IF edu.degree # "none"
                 THEN calculate_text_height(TextOf(edu.degree), width - 100, BodyFont,
                                            line_spacing, FALSE) + line_spacing
                 ELSE 0)
              + Times(paragraph_spacing, 5)
      IN  MinimalEducationLoop(MinimalEducationItem(at, k, width, edu_height), k + 1, width)

\* MinimalTemplate.add_education_section (624-683)
minimal_add_education_section(at, width) ==
    IF get_education_items = << >> THEN at
    ELSE Down(MinimalEducationLoop(Down(draw_minimal_section_header(at, "education"),
                                        Times(line_spacing, 15)),
                                   1, width),
              section_spacing)

\* one project of MinimalTemplate.add_projects_section, from its page-break
\* check on (706-734)
MinimalProject(at, i, width, project_height) ==
    LET project == get_projects_data[i]
        r == check_page_break_minimal(at, project_height, "draw_header")
        title == draw_wrapped_text(Fill(Font(r, TitleFont), "primary_color"),
                                   TextOf(project.title), width, line_spacing, 0,
                                   TitleFont, FALSE, "left", "primary_color",
                                   "M", "projects", i)
        description ==
            IF project.description # "none"
            THEN Down(draw_wrapped_text(Down(title, line_spacing),
                                        TextOf(project.description), width - 100,
                                        line_spacing, 0, BodyFont, TRUE, "left", "",
                                        "M", "projects", i),
                      line_spacing)
            ELSE Down(title, line_spacing)
    IN  Blocked(Down(description, Times(paragraph_spacing, 5)),
                "M", "projects", i, project_height, r.y)

\* the project loop of MinimalTemplate.add_projects_section (694-734)
RECURSIVE MinimalProjectsLoop(_, _, _)
MinimalProjectsLoop(at, i, width) ==
    IF i > Len(get_projects_data) \/ ~Started(at.s) THEN at
    ELSE
      LET project == get_projects_data[i]
          project_height ==
              line_spacing
              + (IF project.description # "none"
                 THEN calculate_text_height(TextOf(project.description), width - 100,
                                            BodyFont, line_spacing, FALSE) + line_spacing
                 ELSE 0)
              + Times(paragraph_spacing, 5)
      IN  MinimalProjectsLoop(MinimalProject(at, i, width, project_height), i + 1, width)

\* MinimalTemplate.add_projects_section (685-736)
minimal_add_projects_section(at, width) ==
    IF get_projects_data = << >> THEN at
    ELSE Down(MinimalProjectsLoop(Down(draw_minimal_section_header(at, "projects"),
                                       Times(line_spacing, 15)),
                                  1, width),
              section_spacing)

\* one line of MinimalTemplate.add_additional_info_section, from its
\* page-break check on (750-760)
MinimalInfoItem(at, k, width, needed_height) ==
    LET r == check_page_break_minimal(at, needed_height, "draw_header")
        info == draw_bulleted_text(r, TextOf(get_additional_info[k]), width - 50,
                                   line_spacing, BodyFont, TRUE, "", "", "M", "info", k)
    IN  Blocked(Down(info, Times(line_spacing, 6)), "M", "info", k, needed_height, r.y)

\* the item loop of MinimalTemplate.add_additional_info_section (747-760)
RECURSIVE MinimalInfoLoop(_, _, _)
MinimalInfoLoop(at, k, width) ==
    IF k > Len(get_additional_info) \/ ~Started(at.s) THEN at
    ELSE
      LET info_height == calculate_bulleted_text_height(TextOf(get_additional_info[k]),
                                                        width - 50, 100, BodyFont,
                                                        line_spacing, FALSE)
      IN  MinimalInfoLoop(MinimalInfoItem(at, k, width,
                                          info_height + Times(line_spacing, 6)),
                          k + 1, width)

\* MinimalTemplate.add_additional_info_section (738-762)
minimal_add_additional_info_section(at, width) ==
    IF get_additional_info = << >> THEN at
    ELSE Down(MinimalInfoLoop(Down(draw_minimal_section_header(at, "info"),
                                   Times(line_spacing, 15)),
                              1, width),
              section_spacing)

\* the education items of _pre_calculate_section_heights (155-176)
RECURSIVE SumEducationHeights(_, _)
SumEducationHeights(items, content_width) ==
    IF items = << >> THEN 0
    ELSE LET edu == Head(items)
         IN  line_spacing
             + (IF edu.degree # "none"
                THEN estimate_text_block_height(TextOf(edu.degree), content_width - 100,
                                                BodyFont, line_spacing, TRUE) + line_spacing
                ELSE 0)
             + Times(paragraph_spacing, 5)
             + SumEducationHeights(Tail(items), content_width)

\* the projects of _pre_calculate_section_heights (182-200)
RECURSIVE SumProjectHeights(_, _)
SumProjectHeights(projects, content_width) ==
    IF projects = << >> THEN 0
    ELSE LET project == Head(projects)
         IN  line_spacing
             + (IF project.description # "none"
                THEN estimate_text_block_height(TextOf(project.description),
                                                content_width - 100, BodyFont,
                                                line_spacing, TRUE) + line_spacing
                ELSE 0)
             + Times(paragraph_spacing, 5)
             + SumProjectHeights(Tail(projects), content_width)

\* the additional-info lines of _pre_calculate_section_heights (206-217)
RECURSIVE SumInfoHeights(_, _)
SumInfoHeights(infos, content_width) ==
    IF infos = << >> THEN 0
    ELSE estimate_bulleted_text_height(TextOf(Head(infos)), content_width - 50, 50,
                                       BodyFont, line_spacing, TRUE)
         + Times(line_spacing, 6)
         + SumInfoHeights(Tail(infos), content_width)

\* MinimalTemplate._pre_calculate_section_heights (62-219): the value it
\* stores under each name that generate_content_layout reads
section_heights(name) ==
    LET content_width == layout.page_size[1] - layout.left_margin - layout.right_margin
    IN  CASE name = "education" ->
               IF has_section("education")
               THEN line_spacing * 2 + SumEducationHeights(get_education_items, content_width)
                    + section_spacing
               ELSE 0
          [] name = "projects" ->
               IF has_section("projects")
               THEN line_spacing * 2 + SumProjectHeights(get_projects_data, content_width)
                    + section_spacing
               ELSE 0
          [] name = "additional_info" ->
               IF has_section("additional_info")
               THEN line_spacing * 2 + SumInfoHeights(get_additional_info, content_width)
                    + section_spacing
               ELSE 0

\* the dictionary that _pre_calculate_section_heights leaves in
\* self.section_heights, which it empties first (69)
_pre_calculate_section_heights ==
    [name \in {"education", "projects", "additional_info"} |-> section_heights(name)]

\* self.section_heights.get(name, 0); the field is a local of the template
\* object, kept in cur
SectionHeight(name) ==
    IF name \in DOMAIN cur.section_heights THEN cur.section_heights[name] ELSE 0

\* a section break that starts the new page without redrawing the header
SectionBreakWithoutHeader(at, name) ==
    IF at.y - SectionHeight(name) < layout.bottom_margin
    THEN [s |-> start_new_page_base(Checked(at).s),
          y |-> layout.page_size[2] - layout.top_margin - Times(inch, 15)]
    ELSE Checked(at)

\* generate_content_layout (385-391, 396-402, 407-413): a section that does
\* not fit below y starts on a new page
SectionBreak(at, name) ==
    IF at.y - SectionHeight(name) < layout.bottom_margin
    THEN [s |-> draw_header(start_new_page_base(Checked(at).s)),
          y |-> layout.page_size[2] - layout.top_margin - Times(inch, 15)]
    ELSE Checked(at)

-----------------------------------------------------------------------------
(* templates/modern.py                                                     *)

\* ModernTemplate.draw_sidebar_section_header (392-408): returns y as given
draw_sidebar_section_header(at, sec) ==
    Mark(Fill(Font(at, HeaderFont), "white"), "header", "S", sec, 0, 0)

\* ModernTemplate.draw_main_section_header (666-679): returns y as given
draw_main_section_header(at, sec) ==
    Mark(Fill(Font(at, [name |-> "header_font", size |-> header_font_size + 10]),
              "primary_color"),
         "header", "R", sec, 0, 0)

\* the detail loop of ModernTemplate.add_contact_section (149-160) with
\* draw_contact_item (164-191); every detail has an icon and a text
RECURSIVE ModernContactLoop(_, _)
ModernContactLoop(at, k) ==
    IF k > doc.nContacts \/ ~Started(at.s) THEN at
    ELSE
      LET needed_height == Times(line_spacing, 15)
          r == check_page_break_modern(at, needed_height, "draw_modern_layout")
          icon == Fill(Font(r, IconFont), "white")
          detail == Mark(Fill(Font(icon, BodyFont), "white"), "text", "S", "contact", k, 0)
      IN  ModernContactLoop(Down(detail, Times(line_spacing, 12)), k + 1)

\* ModernTemplate.add_contact_section (138-162)
modern_add_contact_section(at, width) ==
    IF doc.nContacts = 0 THEN at
    ELSE Down(ModernContactLoop(Down(draw_sidebar_section_header(at, "contact"),
                                     Times(line_spacing, 15)),
                                1),
              section_spacing)

\* ModernTemplate.draw_sidebar_bullet_item (238-270)
draw_sidebar_bullet_item(at, text, width, sec, idx) ==
    LET text_x_off == Times(inch, 4) + Times(inch, 2)
        available_width == width - text_x_off - Times(inch, 3)
        text_width == GetTextWidth(text[1], BodyFont)
        lines == wrap_text(text, available_width, TRUE, BodyFont)
    IN  Stamp(Fill(Font(at, BodyFont), "white"), "bullet", "S", sec, idx,
              IF text_width > available_width /\ Len(lines) > 0
              THEN (Len(lines) - 1) * line_spacing
              ELSE 0)

\* sum(calculate_text_height(skill, width) for skill in skills)
RECURSIVE SumTextHeights(_, _)
SumTextHeights(texts, width) ==
    IF texts = << >> THEN 0
    ELSE calculate_text_height(TextOf(Head(texts)), width, BodyFont, line_spacing, FALSE)
         + SumTextHeights(Tail(texts), width)

\* for skill in skills: draw_sidebar_bullet_item(...); y -= 0.7 * line_spacing
RECURSIVE ModernSkillBullets(_, _, _, _, _)
ModernSkillBullets(at, skills, j, width, k) ==
    IF j > Len(skills) \/ ~Started(at.s) THEN at
    ELSE ModernSkillBullets(
             Down(draw_sidebar_bullet_item(at, TextOf(skills[j]), width, "skills", k),
                  Times(line_spacing, 7)),
             skills, j + 1, width, k)

\* one category of ModernTemplate.add_technical_skills_section, from its
\* page-break check on (222-234)
ModernSkillsCategory(at, k, width, total_height) ==
    LET r == check_page_break_modern(at, total_height, "draw_modern_layout")
        label == Mark(Fill(Font(r, TitleFont), "white"), "text", "S", "skills", k, 0)
        bullets == ModernSkillBullets(Down(label, Times(line_spacing, 12)),
                                      get_technical_skills[k], 1, width, k)
    IN  Blocked(Down(bullets, Times(line_spacing, 5)), "S", "skills", k, total_height, r.y)

\* the category loop of ModernTemplate.add_technical_skills_section (214-234)
RECURSIVE ModernSkillsLoop(_, _, _)
ModernSkillsLoop(at, k, width) ==
    IF k > Len(get_technical_skills) \/ ~Started(at.s) THEN at
    ELSE
      LET skills == get_technical_skills[k]
          needed_height == Times(line_spacing, 15)
          skills_height == SumTextHeights(skills, width - Times(inch, 6))
                           + Len(skills) * Times(line_spacing, 7)
      IN  ModernSkillsLoop(ModernSkillsCategory(at, k, width, needed_height + skills_height),
                           k + 1, width)

\* ModernTemplate.add_technical_skills_section (193-236)
modern_add_technical_skills_section(at, width) ==
    IF ~has_section("technical_skills") THEN at
    ELSE Down(ModernSkillsLoop(Down(draw_sidebar_section_header(Font(at, HeaderFont),
                                                                "skills"),
                                    Times(line_spacing, 15)),
                               1, width),
              section_spacing)

\* one item of ModernTemplate.add_education_section, from its page-break
\* check on (318-368)
ModernEducationItem(at, k, width, needed_height) ==
    LET edu == get_education_items[k]
        small == [name |-> "body_font", size |-> body_font_size - 5]
        r == check_page_break_modern(at, needed_height, "draw_modern_layout")
        institution_width == GetTextWidth(TextOf(edu.institution)[1], TitleFont)
        lines == wrap_text(TextOf(edu.institution), width - Times(inch, 4), TRUE, TitleFont)
        institution == Stamp(Fill(Font(r, TitleFont), "white"), "text", "S", "education", k,
                             IF institution_width > width - Times(inch, 4) /\ Len(lines) > 0
                             THEN (Len(lines) - 1) * line_spacing
                             ELSE 0)
        degree == IF edu.degree # "none"
                  THEN draw_wrapped_text(Down(Fill(Font(institution, BodyFont), "white"),
                                              Times(line_spacing, 5)),
                                         TextOf(edu.degree), width - Times(inch, 4),
                                         line_spacing, Times(inch, 4), BodyFont, TRUE,
                                         "left", "white", "S", "education", k)
                  ELSE institution
        duration == IF edu.duration # "none"
                    THEN Down(Mark(Fill(Font(Down(degree, Times(line_spacing, 5)), small),
                                        "white"),
                                   "text", "S", "education", k, 0),
                              line_spacing)
                    ELSE Down(degree, Times(line_spacing, 5))
    IN  Blocked(Down(duration, paragraph_spacing), "S", "education", k, needed_height, r.y)

\* the item loop of ModernTemplate.add_education_section (285-368)
RECURSIVE ModernEducationLoop(_, _, _)
ModernEducationLoop(at, k, width) ==
    IF k > Len(get_education_items) \/ ~Started(at.s) THEN at
    ELSE
      LET edu == get_education_items[k]
          small == [name |-> "body_font", size |-> body_font_size - 5]
          institution_height ==
              calculate_text_height(TextOf(edu.institution), width - Times(inch, 4),
                                    TitleFont, line_spacing, FALSE)
          needed_height ==
              Times(line_spacing, 5) + institution_height + Times(line_spacing, 5)
              + (IF edu.degree # "none"
                 THEN calculate_text_height(TextOf(edu.degree), width - Times(inch, 5),
                                            BodyFont, line_spacing, FALSE)
                      + Times(line_spacing, 5)
                 ELSE 0)
              + (IF edu.duration # "none"
                 THEN calculate_text_height(TextOf(edu.duration), width - Times(inch, 5),
                                            small, line_spacing, FALSE)
                 ELSE 0)
              + paragraph_spacing
      IN  ModernEducationLoop(ModernEducationItem(at, k, width, needed_height),
                              k + 1, width)

\* ModernTemplate.add_education_section (272-370)
modern_add_education_section(at, width) ==
    IF get_education_items = << >> THEN at
    ELSE Down(ModernEducationLoop(Down(draw_sidebar_section_header(at, "education"),
                                       Times(line_spacing, 15)),
                                  1, width),
              section_spacing)

\* one line of ModernTemplate.add_additional_info_section, from its
\* page-break check on (384-388)
ModernInfoItem(at, k, width, needed_height) ==
    LET r == check_page_break_modern(at, needed_height, "draw_modern_layout")
        info == draw_sidebar_bullet_item(r, TextOf(get_additional_info[k]), width, "info", k)
    IN  Down(Blocked(info, "S", "info", k, needed_height, r.y), line_spacing)

\* the item loop of ModernTemplate.add_additional_info_section (381-388)
RECURSIVE ModernInfoLoop(_, _, _)
ModernInfoLoop(at, k, width) ==
    IF k > Len(get_additional_info) \/ ~Started(at.s) THEN at
    ELSE ModernInfoLoop(
             ModernInfoItem(at, k, width,
                            calculate_bulleted_text_height(TextOf(get_additional_info[k]),
                                                           width - Times(inch, 6), 100,
                                                           BodyFont, line_spacing, FALSE)),
             k + 1, width)

\* ModernTemplate.add_additional_info_section (372-390)
modern_add_additional_info_section(at, width) ==
    IF get_additional_info = << >> THEN at
    ELSE Down(ModernInfoLoop(Down(draw_sidebar_section_header(at, "info"),
                                  Times(line_spacing, 15)),
                             1, width),
              section_spacing)

\* ModernTemplate.add_name_section (410-430); the candidate has a name and a
\* title
add_name_section(at) ==
    LET name == Mark(Fill(Font(Down(at, Times(inch, 5)),
                               [name |-> "header_font", size |-> 240]),
                          "primary_color"),
                     "text", "R", "name", 0, 0)
        title == Mark(Fill(Font(Down(name, Times(inch, 8) - Times(inch, 5)),
                                [name |-> "body_font", size |-> 140]),
                           "text_color"),
                      "text", "R", "name", 0, 0)
    IN  Down(title, Times(inch, 12) - Times(inch, 8))

\* one paragraph of ModernTemplate.add_profile_section, from its page-break
\* check on (451-464)
ModernParagraph(at, k, width, paragraph_height) ==
    LET r == check_page_break_modern(at, paragraph_height, "draw_modern_layout")
        paragraph == draw_wrapped_text(r, TextOf(get_profile_paragraphs[k]), width,
                                       Times(line_spacing, 13), 0, BodyFont, TRUE, "left",
                                       "text_color", "R", "profile", k)
    IN  Down(Blocked(paragraph, "R", "profile", k, paragraph_height, r.y), line_spacing)

\* the paragraph loop of ModernTemplate.add_profile_section (446-464)
RECURSIVE ModernProfileLoop(_, _, _)
ModernProfileLoop(at, k, width) ==
    IF k > Len(get_profile_paragraphs) \/ ~Started(at.s) THEN at
    ELSE ModernProfileLoop(
             ModernParagraph(at, k, width,
                             calculate_text_height(TextOf(get_profile_paragraphs[k]), width,
                                                   BodyFont, Times(line_spacing, 13), FALSE)),
             k + 1, width)

\* ModernTemplate.add_profile_section (432-466)
modern_add_profile_section(at, width) ==
    IF get_profile_paragraphs = << >> THEN at
    ELSE Down(ModernProfileLoop(Down(draw_main_section_header(at, "profile"),
                                     Times(line_spacing, 15)),
                                1, width),
              section_spacing)

\* the roles of ModernTemplate._estimate_company_height (580-592)
RECURSIVE ModernSumRoles(_, _)
ModernSumRoles(roles, width) ==
    IF roles = << >> THEN 0
    ELSE LET role == Head(roles)
             role_title_height == Times(line_spacing, 15)
             responsibilities_height ==
                 SumBulletHeights(role.responsibilities, width - Times(inch, 5), 100,
                                  Times(line_spacing, 5))
         IN  role_title_height + responsibilities_height + line_spacing
             + ModernSumRoles(Tail(roles), width)

\* ModernTemplate._estimate_company_height (557-597)
modern_estimate_company_height(company, width) ==
    LET line_height == line_spacing
        company_header_height == IF ~DurationFits(company, width)
                                 THEN Times(line_height, 25)
                                 ELSE Times(line_height, 15)
    IN  company_header_height + ModernSumRoles(company.roles, width) + paragraph_spacing * 2

\* the role loop of ModernTemplate.add_experience_section (521-550)
RECURSIVE ModernRolesLoop(_, _, _, _, _)
ModernRolesLoop(at, roles, j, width, i) ==
    IF j > Len(roles) \/ ~Started(at.s) THEN at
    ELSE
      LET role == roles[j]
          responsibilities == role.responsibilities
          role_height == calculate_text_height(TextOf(role.title), width - Times(inch, 2),
                                               BodyFont, line_spacing, FALSE)
          resp_height == SumBulletHeights(responsibilities, width - Times(inch, 5), 100, 0)
                         + Len(responsibilities) * Times(line_spacing, 5)
          total_role_height == role_height + resp_height + line_spacing
          r == check_page_break_modern(at, total_role_height, "draw_modern_layout")
          title == Stamp(Fill(Font(r, TitleFont), "secondary_color"),
                         "text", "R", "experience", i, line_spacing)
          bullets == DrawBullets(title, responsibilities, 1, width - Times(inch, 5),
                                 Times(line_spacing, 5), "text_color", "R", "experience", i)
      IN  ModernRolesLoop(Down(bullets, line_spacing), roles, j + 1, width, i)

\* one company of ModernTemplate.add_experience_section, from its page-break
\* check on (483-553)
ModernCompany(at, i, width, needed_height) ==
    LET company == get_companies[i]
        r == check_page_break_modern(at, needed_height, "draw_modern_layout")
        h == IF r.y = layout.page_size[2] - layout.top_margin
             THEN Down(draw_main_section_header(r, "experience"), Times(line_spacing, 15))
             ELSE r
        name == Mark(Fill(Font(h, [name |-> "header_font", size |-> body_font_size + 10]),
                          "primary_color"),
                     "text", "R", "experience", i, 0)
        duration == Down(Fill(Font(name, BodyFont), "text_color"),
                         IF DurationFits(company, width)
                         THEN Times(line_spacing, 12)
                         ELSE line_spacing + Times(line_spacing, 7))
        roles == ModernRolesLoop(duration, company.roles, 1, width, i)
    IN  Blocked(Down(roles, paragraph_spacing), "R", "experience", i, needed_height, h.y)

\* the company loop of ModernTemplate.add_experience_section (478-553)
RECURSIVE ModernCompaniesLoop(_, _, _)
ModernCompaniesLoop(at, i, width) ==
    IF i > Len(get_companies) \/ ~Started(at.s) THEN at
    ELSE ModernCompaniesLoop(
             ModernCompany(at, i, width,
                           modern_estimate_company_height(get_companies[i], width) + 200),
             i + 1, width)

\* ModernTemplate.add_experience_section (468-555)
modern_add_experience_section(at, width) ==
    IF get_companies = << >> THEN at
    ELSE Down(ModernCompaniesLoop(Down(draw_main_section_header(at, "experience"),
                                       Times(line_spacing, 15)),
                                  1, width),
              section_spacing)

\* one project of ModernTemplate.add_projects_section, from its page-break
\* check on (619-640)
ModernProject(at, i, width, project_height) ==
    LET project == get_projects_data[i]
        r == check_page_break_modern(at, project_height, "draw_modern_layout")
        title == Stamp(Fill(Font(r, TitleFont), "primary_color"),
                       "text", "R", "projects", i, line_spacing)
        description ==
            IF project.description # "none"
            THEN draw_wrapped_text(title, TextOf(project.description), width, line_spacing,
                                   Times(inch, 2), BodyFont, TRUE, "left", "text_color",
                                   "R", "projects", i)
            ELSE title
    IN  Blocked(Down(description, paragraph_spacing),
                "R", "projects", i, project_height, r.y)

\* the project loop of ModernTemplate.add_projects_section (608-640)
RECURSIVE ModernProjectsLoop(_, _, _)
ModernProjectsLoop(at, i, width) ==
    IF i > Len(get_projects_data) \/ ~Started(at.s) THEN at
    ELSE
      LET project == get_projects_data[i]
          title_height == calculate_text_height(TextOf(project.title), width, TitleFont,
                                                line_spacing, FALSE)
          desc_height == IF project.description # "none"
                         THEN calculate_text_height(TextOf(project.description), width,
                                                    BodyFont, line_spacing, FALSE)
                         ELSE 0
      IN  ModernProjectsLoop(
              ModernProject(at, i, width,
                            title_height + desc_height + Times(line_spacing, 15)),
              i + 1, width)

\* the references block of ModernTemplate.add_projects_section, from its
\* page-break check on (648-662)
ModernReferences(at, width, ref_height) ==
    LET r == check_page_break_modern(at, ref_height, "draw_modern_layout")
        references == draw_wrapped_text(Down(draw_main_section_header(r, "references"),
                                             Times(line_spacing, 12)),
                                        TextOf(get_references), width, line_spacing, 0,
                                        BodyFont, FALSE, "left", "text_color",
                                        "R", "references", 1)
    IN  Blocked(references, "R", "references", 1, ref_height, r.y)

\* the references of ModernTemplate.add_projects_section (643-662)
ModernAddReferences(at, width) ==
    IF get_references = "none" THEN at
    ELSE ModernReferences(at, width,
                          calculate_text_height(TextOf(get_references), width, BodyFont,
                                                line_spacing, FALSE) + line_spacing * 2)

\* ModernTemplate.add_projects_section (599-664)
modern_add_projects_section(at, width) ==
    IF get_projects_data = << >> THEN at
    ELSE ModernAddReferences(ModernProjectsLoop(Down(draw_main_section_header(at, "projects"),
                                                     Times(line_spacing, 15)),
                                                1, width),
                             width)

-----------------------------------------------------------------------------
(* Inputs                                                                  *)

MaxItems == 2

TemplateNames == {"two_column", "modern", "minimal"}

PageHeights == {2500, 3400}

Layouts ==
    { [page_size |-> <<2400, h>>, left_margin |-> 200, right_margin |-> 200,
       top_margin |-> 288, bottom_margin |-> 288, banner_height |-> 1008,
       left_column_width_ratio |-> 40] : h \in PageHeights }

\* documents with two contact details whose sections have between none and
\* MaxItems entries, one document for each smaller number of contact
\* details, and documents whose right-column texts fill one line exactly
Docs ==
    { [nContacts |-> 2, nSkills |-> a, nProfile |-> b, edu |-> c, nInfo |-> d,
       nCompanies |-> e, nProjects |-> f, leftText |-> lt, rightText |-> rt,
       references |-> TRUE] :
        a \in 0..MaxItems, b \in 0..MaxItems, c \in {-1, 0, MaxItems}, d \in {0, 1},
        e \in 0..MaxItems, f \in {0, MaxItems},
        lt \in {"short", "long"}, rt \in {"medium", "long"} }
    \cup
    { [nContacts |-> n, nSkills |-> 1, nProfile |-> 1, edu |-> 1, nInfo |-> 1,
       nCompanies |-> 1, nProjects |-> 1, leftText |-> "short", rightText |-> "medium",
       references |-> TRUE] : n \in 0..1 }
    \cup
    { [nContacts |-> 2, nSkills |-> 0, nProfile |-> b, edu |-> -1, nInfo |-> 0,
       nCompanies |-> e, nProjects |-> 0, leftText |-> "short", rightText |-> "wide",
       references |-> TRUE] : b \in 0..MaxItems, e \in 1..MaxItems }

-----------------------------------------------------------------------------
(* State machine                                                           *)

S == [page |-> current_page, shows |-> shows, fill |-> canvas.fill,
      font |-> canvas.font, log |-> log, checks |-> cur.checks]

\* the render state s becomes the state of the template and its canvas
Becomes(s) ==
    /\ current_page' = s.page
    /\ shows' = s.shows
    /\ canvas' = [fill |-> s.fill, font |-> s.font]
    /\ log' = s.log

\* the template and its canvas as a section routine finds them, with the
\* cursor it is handed
At(y) == [s |-> S, y |-> y]

\* a section routine returns r: the template and its canvas are as it left
\* them, and the caller assigns the returned cursor to the locals named
Return(r, locals) ==
    /\ Becomes(r.s)
    /\ cur' = [f \in DOMAIN cur |->
                  IF f \in locals THEN r.y
                  ELSE IF f = "checks" THEN r.s.checks ELSE cur[f]]

NoLocals == [left_col_width |-> 0, right_col_width |-> 0, initial_start_y |-> 0,
             left_y |-> 0, right_y |-> 0, left_y_after_skills |-> 0,
             right_y_after_profile |-> 0, current_page_after_left |-> 0,
             width |-> 0, y |-> 0, sidebar_width |-> 0, sidebar_y |-> 0,
             main_width |-> 0, main_y |-> 0, checks |-> 0,
             section_heights |-> << >>]

\* a template object as constructed (BaseTemplate.__init__), a fresh canvas
\* whose font CVGenerator has set, and the data of the render to come
Init ==
    /\ tmpl \in TemplateNames
    /\ pc = "idle"
    /\ doc \in Docs
    /\ layout \in Layouts
    /\ current_page = 1
    /\ shows = 0
    /\ canvas = [fill |-> "black", font |-> BodyFont]
    /\ log = << >>
    /\ cur = NoLocals
    /\ call = NoCall

\* a render that leaves current_page as the render before left it
BaseRenderKeepingPage(s) == SetFont(s, BodyFont)

\* BaseTemplate.render (54-80): fields, current_page = 1, body font
BaseRender(s) == SetFont([s EXCEPT !.page = 1], BodyFont)

\* TwoColumnTemplate.render (35-93) up to the call of
\* generate_coordinated_layout, whose first lines (389-393) are included
RenderTwoColumn ==
    /\ tmpl = "two_column" /\ pc = "idle"
    /\ LET s0 == [BaseRender(S) EXCEPT !.page = 1]
           page_width == layout.page_size[1]
           left_col_width == left_column_width - layout.left_margin
           left_col_start_y == layout.page_size[2] - layout.banner_height - layout.top_margin
           right_col_x == left_column_width + Times(layout.left_margin, 8)
           right_col_width == page_width - right_col_x - layout.right_margin
       IN  IF DrawContactDetailsRaises
           THEN /\ Becomes(s0)
                /\ pc' = "raised"
                /\ cur' = cur
           ELSE /\ Becomes(draw_banner_and_column_bg(s0))
                /\ pc' = "skills"
                /\ cur' = [cur EXCEPT !.left_col_width = left_col_width,
                                      !.right_col_width = right_col_width,
                                      !.initial_start_y = left_col_start_y,
                                      !.left_y = left_col_start_y,
                                      !.right_y = left_col_start_y]
    /\ UNCHANGED <<tmpl, doc, layout, call>>

\* generate_coordinated_layout, line 402
TechnicalSkills ==
    /\ tmpl = "two_column" /\ pc = "skills"
    /\ Return(add_technical_skills_section(At(cur.initial_start_y), cur.left_col_width),
              {"left_y_after_skills", "left_y"})
    /\ pc' = "profile"
    /\ UNCHANGED <<tmpl, doc, layout, call>>

\* a profile section that starts where the technical skills ended
ProfileBelowSkills ==
    /\ tmpl = "two_column" /\ pc = "profile"
    /\ Return(add_profile_section(At(cur.left_y_after_skills), cur.right_col_width),
              {"right_y_after_profile", "right_y"})
    /\ pc' = "education"
    /\ UNCHANGED <<tmpl, doc, layout, call>>

\* generate_coordinated_layout, line 403
Profile ==
    /\ tmpl = "two_column" /\ pc = "profile"
    /\ Return(add_profile_section(At(cur.initial_start_y), cur.right_col_width),
              {"right_y_after_profile", "right_y"})
    /\ pc' = "education"
    /\ UNCHANGED <<tmpl, doc, layout, call>>

\* generate_coordinated_layout, lines 411-412
Education ==
    /\ tmpl = "two_column" /\ pc = "education"
    /\ Return(add_education_section(At(cur.left_y_after_skills), cur.left_col_width),
              {"left_y"})
    /\ pc' = "more_details"
    /\ UNCHANGED <<tmpl, doc, layout, call>>

\* generate_coordinated_layout, lines 413-414
MoreDetails ==
    /\ tmpl = "two_column" /\ pc = "more_details"
    /\ Return(add_more_details_section(At(cur.left_y), cur.left_col_width), {"left_y"})
    /\ pc' = "resume_right"
    /\ UNCHANGED <<tmpl, doc, layout, call>>

\* generate_coordinated_layout, lines 417-431: where the right column goes on
ResumeRight ==
    /\ tmpl = "two_column" /\ pc = "resume_right"
    /\ LET current_page_after_left == current_page
           content_top_y == layout.page_size[2] - layout.banner_height - layout.top_margin
       IN  cur' = [cur EXCEPT !.current_page_after_left = current_page_after_left,
                              !.right_y =
                                  IF current_page > 1 /\ current_page_after_left > 1
                                  THEN content_top_y
                                  ELSE cur.right_y_after_profile]
    /\ pc' = "experience"
    /\ UNCHANGED <<tmpl, doc, layout, current_page, shows, canvas, log, call>>

\* generate_coordinated_layout, line 433
Experience ==
    /\ tmpl = "two_column" /\ pc = "experience"
    /\ Return(add_experience_section(At(cur.right_y), cur.right_col_width), {"right_y"})
    /\ pc' = "projects"
    /\ UNCHANGED <<tmpl, doc, layout, call>>

\* generate_coordinated_layout, line 434, and the return of render
Projects ==
    /\ tmpl = "two_column" /\ pc = "projects"
    /\ Return(add_projects_section(At(cur.right_y), cur.right_col_width), {"right_y"})
    /\ pc' = "done"
    /\ UNCHANGED <<tmpl, doc, layout, call>>

\* MinimalTemplate.render (26-60) up to the call of generate_content_layout
RenderMinimal ==
    /\ tmpl = "minimal" /\ pc = "idle"
    /\ LET s0 == BaseRender(S)
           page_width == layout.page_size[1]
           page_height == layout.page_size[2]
           content_width == page_width - layout.left_margin - layout.right_margin
           content_y == page_height - layout.top_margin - Times(inch, 15)
       IN  /\ Becomes(draw_header(s0))
           /\ cur' = [cur EXCEPT !.width = content_width, !.y = content_y,
                                 !.section_heights = _pre_calculate_section_heights]
    /\ pc' = "m_profile"
    /\ UNCHANGED <<tmpl, doc, layout, call>>

\* generate_content_layout, lines 376-377
MinimalProfile ==
    /\ tmpl = "minimal" /\ pc = "m_profile"
    /\ Return(IF has_section("profile")
              THEN minimal_add_profile_section(At(cur.y), cur.width)
              ELSE At(cur.y),
              {"y"})
    /\ pc' = "m_skills"
    /\ UNCHANGED <<tmpl, doc, layout, call>>

\* generate_content_layout, lines 380-381
MinimalSkills ==
    /\ tmpl = "minimal" /\ pc = "m_skills"
    /\ Return(IF has_section("technical_skills")
              THEN minimal_add_skills_section(At(cur.y), cur.width)
              ELSE At(cur.y),
              {"y"})
    /\ pc' = "m_experience"
    /\ UNCHANGED <<tmpl, doc, layout, call>>

\* generate_content_layout, lines 384-385
MinimalExperience ==
    /\ tmpl = "minimal" /\ pc = "m_experience"
    /\ Return(IF has_section("experience")
              THEN minimal_add_experience_section(At(cur.y), cur.width)
              ELSE At(cur.y),
              {"y"})
    /\ pc' = "m_education"
    /\ UNCHANGED <<tmpl, doc, layout, call>>

\* generate_content_layout, lines 388-396
MinimalEducation ==
    /\ tmpl = "minimal" /\ pc = "m_education"
    /\ Return(IF has_section("education")
              THEN minimal_add_education_section(SectionBreak(At(cur.y), "education"),
                                                 cur.width)
              ELSE At(cur.y),
              {"y"})
    /\ pc' = "m_projects"
    /\ UNCHANGED <<tmpl, doc, layout, call>>

\* generate_content_layout, lines 399-407
MinimalProjects ==
    /\ tmpl = "minimal" /\ pc = "m_projects"
    /\ Return(IF has_section("projects")
              THEN minimal_add_projects_section(SectionBreak(At(cur.y), "projects"),
                                                cur.width)
              ELSE At(cur.y),
              {"y"})
    /\ pc' = "m_info"
    /\ UNCHANGED <<tmpl, doc, layout, call>>

\* generate_content_layout, lines 410-418, and the return of render
MinimalAdditionalInfo ==
    /\ tmpl = "minimal" /\ pc = "m_info"
    /\ Return(IF has_section("additional_info")
              THEN minimal_add_additional_info_section(
                       SectionBreak(At(cur.y), "additional_info"), cur.width)
              ELSE At(cur.y),
              {"y"})
    /\ pc' = "done"
    /\ UNCHANGED <<tmpl, doc, layout, call>>

\* ModernTemplate.render (26-61) up to the call of generate_layout
RenderModern ==
    /\ tmpl = "modern" /\ pc = "idle"
    /\ LET s0 == BaseRender(S)
           page_width == layout.page_size[1]
           page_height == layout.page_size[2]
           sidebar_width == (page_width * 33) \div 100
           sidebar_start_y == page_height - layout.top_margin
           main_x == sidebar_width + Times(inch, 3)
           main_width == page_width - main_x - layout.right_margin
           main_start_y == page_height - layout.top_margin
       IN  /\ Becomes(draw_modern_layout(s0))
           /\ cur' = [cur EXCEPT !.sidebar_width = sidebar_width,
                                 !.sidebar_y = sidebar_start_y,
                                 !.main_width = main_width,
                                 !.main_y = main_start_y]
    /\ pc' = "s_contact"
    /\ UNCHANGED <<tmpl, doc, layout, call>>

\* generate_layout, line 109
ModernContact ==
    /\ tmpl = "modern" /\ pc = "s_contact"
    /\ Return(modern_add_contact_section(At(cur.sidebar_y), cur.sidebar_width),
              {"sidebar_y"})
    /\ pc' = "s_skills"
    /\ UNCHANGED <<tmpl, doc, layout, call>>

\* generate_layout, line 110
ModernTechnicalSkills ==
    /\ tmpl = "modern" /\ pc = "s_skills"
    /\ Return(modern_add_technical_skills_section(At(cur.sidebar_y), cur.sidebar_width),
              {"sidebar_y"})
    /\ pc' = "s_education"
    /\ UNCHANGED <<tmpl, doc, layout, call>>

\* generate_layout, line 111
ModernEducation ==
    /\ tmpl = "modern" /\ pc = "s_education"
    /\ Return(modern_add_education_section(At(cur.sidebar_y), cur.sidebar_width),
              {"sidebar_y"})
    /\ pc' = "s_info"
    /\ UNCHANGED <<tmpl, doc, layout, call>>

\* generate_layout, line 112
ModernAdditionalInfo ==
    /\ tmpl = "modern" /\ pc = "s_info"
    /\ Return(modern_add_additional_info_section(At(cur.sidebar_y), cur.sidebar_width),
              {"sidebar_y"})
    /\ pc' = "r_profile"
    /\ UNCHANGED <<tmpl, doc, layout, call>>

\* generate_layout, lines 115-116
ModernNameAndProfile ==
    /\ tmpl = "modern" /\ pc = "r_profile"
    /\ Return(modern_add_profile_section(add_name_section(At(cur.main_y)), cur.main_width),
              {"main_y"})
    /\ pc' = "r_experience"
    /\ UNCHANGED <<tmpl, doc, layout, call>>

\* generate_layout, line 117
ModernExperience ==
    /\ tmpl = "modern" /\ pc = "r_experience"
    /\ Return(modern_add_experience_section(At(cur.main_y), cur.main_width), {"main_y"})
    /\ pc' = "r_projects"
    /\ UNCHANGED <<tmpl, doc, layout, call>>

\* generate_layout, line 118, and the return of render
ModernProjects ==
    /\ tmpl = "modern" /\ pc = "r_projects"
    /\ Return(modern_add_projects_section(At(cur.main_y), cur.main_width), {"main_y"})
    /\ pc' = "done"
    /\ UNCHANGED <<tmpl, doc, layout, call>>

Next ==
    \/ RenderTwoColumn
    \/ TechnicalSkills
    \/ Profile
    \/ Education
    \/ MoreDetails
    \/ ResumeRight
    \/ Experience
    \/ Projects
    \/ RenderMinimal
    \/ MinimalProfile
    \/ MinimalSkills
    \/ MinimalExperience
    \/ MinimalEducation
    \/ MinimalProjects
    \/ MinimalAdditionalInfo
    \/ RenderModern
    \/ ModernContact
    \/ ModernTechnicalSkills
    \/ ModernEducation
    \/ ModernAdditionalInfo
    \/ ModernNameAndProfile
    \/ ModernExperience
    \/ ModernProjects

Spec == Init /\ [][Next]_vars

-----------------------------------------------------------------------------
(* Direct calls of check_page_break on a template whose render has set its *)
(* fields (canvas, theme, layout, current_page = 1)                        *)

MaxPages == 3

HarnessDoc ==
    [nContacts |-> 2, nSkills |-> 1, nProfile |-> 1, edu |-> 1, nInfo |-> 1,
     nCompanies |-> 1, nProjects |-> 1, leftText |-> "short", rightText |-> "medium",
     references |-> TRUE]

\* needed_height arguments, and the distance of y - needed_height from the
\* bottom margin
NeededHeights == {0, 130, 1690}
Slacks == {-10, 0, 1, 49, 50, 51, 149, 150, 151}

\* the redraw functions the callers of a template pass ("" is None)
CallbacksOf(t) ==
    CASE t = "two_column" -> {"", "draw_banner_and_column_bg"}
      [] t = "modern"     -> {"", "draw_modern_layout"}
      [] t = "minimal"    -> {"", "draw_header"}
      [] t = "base"       -> {""}

InitBreak ==
    /\ tmpl \in {"two_column", "modern", "minimal", "base"}
    /\ pc = "called"
    /\ doc = HarnessDoc
    /\ layout \in Layouts
    /\ current_page = 1
    /\ shows = 0
    /\ canvas \in [fill : {"black", "accent_color"}, font : {BodyFont, HeaderFont}]
    /\ log = << >>
    /\ cur = NoLocals
    /\ call = NoCall

\* the record of a call check_page_break(y, needed_height, callback) that
\* returned r
Called(y, needed_height, callback, r) ==
    [op |-> "check_page_break", y |-> y, needed_height |-> needed_height,
     callback |-> callback, ret |-> r.y, page_before |-> current_page,
     shows_before |-> shows, log_before |-> Len(log), canvas_before |-> canvas]

CallCheckPageBreak ==
    /\ tmpl = "two_column" /\ pc = "called" /\ current_page < MaxPages
    /\ \E needed_height \in NeededHeights, slack \in Slacks, cb \in CallbacksOf(tmpl) :
         LET y == layout.bottom_margin + needed_height + slack
             r == check_page_break(At(y), needed_height, cb)
         IN  /\ Becomes(r.s)
             /\ call' = Called(y, needed_height, cb, r)
    /\ UNCHANGED <<tmpl, pc, doc, layout, cur>>

CallCheckPageBreakBase ==
    /\ tmpl = "base" /\ pc = "called" /\ current_page < MaxPages
    /\ \E needed_height \in NeededHeights, slack \in Slacks, cb \in CallbacksOf(tmpl) :
         LET y == layout.bottom_margin + needed_height + slack
             r == check_page_break_base(At(y), needed_height, cb)
         IN  /\ Becomes(r.s)
             /\ call' = Called(y, needed_height, cb, r)
    /\ UNCHANGED <<tmpl, pc, doc, layout, cur>>

CallCheckPageBreakModern ==
    /\ tmpl = "modern" /\ pc = "called" /\ current_page < MaxPages
    /\ \E needed_height \in NeededHeights, slack \in Slacks, cb \in CallbacksOf(tmpl) :
         LET y == layout.bottom_margin + needed_height + slack
             r == check_page_break_modern(At(y), needed_height, cb)
         IN  /\ Becomes(r.s)
             /\ call' = Called(y, needed_height, cb, r)
    /\ UNCHANGED <<tmpl, pc, doc, layout, cur>>

CallCheckPageBreakMinimal ==
    /\ tmpl = "minimal" /\ pc = "called" /\ current_page < MaxPages
    /\ \E needed_height \in NeededHeights, slack \in Slacks, cb \in CallbacksOf(tmpl) :
         LET y == layout.bottom_margin + needed_height + slack
             r == check_page_break_minimal(At(y), needed_height, cb)
         IN  /\ Becomes(r.s)
             /\ call' = Called(y, needed_height, cb, r)
    /\ UNCHANGED <<tmpl, pc, doc, layout, cur>>

NextBreak ==
    \/ CallCheckPageBreak
    \/ CallCheckPageBreakBase
    \/ CallCheckPageBreakModern
    \/ CallCheckPageBreakMinimal

SpecBreak == InitBreak /\ [][NextBreak]_vars

-----------------------------------------------------------------------------
(* Properties of check_page_break                                          *)

\* what the last call appended to the drawing log
Issued == SubSeq(log, call.log_before + 1, Len(log))

\* C1: a call of the two-column check_page_break with
\* y - needed_height < bottom_margin + 5 pt ends the page exactly once, adds
\* exactly 1 to current_page, then sets the fill colour and the font to the
\* theme's text colour and body font, then calls the redraw function exactly
\* once if one was given, and returns page_height - banner_height - top_margin.
C1_BreakAdvancesOnce ==
    (/\ call.op = "check_page_break"
     /\ tmpl = "two_column"
     /\ call.y - call.needed_height < layout.bottom_margin + 50)
    => /\ shows = call.shows_before + 1
       /\ current_page = call.page_before + 1
       /\ call.ret = layout.page_size[2] - layout.banner_height - layout.top_margin
       /\ Len(Issued) = IF call.callback = "" THEN 3 ELSE 4
       /\ Issued[1].op = "showPage"
       /\ Issued[1].page = call.page_before
       /\ {Issued[2].op, Issued[3].op} = {"setFillColor", "setFont"}
       /\ Issued[2].page = call.page_before + 1
       /\ Issued[3].fill = "text_color"
       /\ Issued[3].font = BodyFont
       /\ call.callback # "" => Issued[4].op = "chrome"
       /\ call.callback = "" => canvas = [fill |-> "text_color", font |-> BodyFont]

\* a breaking call with a redraw function, made when the canvas held other
\* settings than the theme defaults
C1_Witness ==
    /\ call.op = "check_page_break"
    /\ tmpl = "two_column"
    /\ call.y - call.needed_height < layout.bottom_margin + 50
    /\ call.callback = "draw_banner_and_column_bg"
    /\ call.canvas_before = [fill |-> "accent_color", font |-> HeaderFont]
    /\ current_page = 2

\* the buffer each template keeps above the bottom margin
BufferOf(t) ==
    CASE t = "two_column" -> 50
      [] t = "base"       -> 150
      [] t = "modern"     -> 150
      [] t = "minimal"    -> 0

\* C2: in every template, a call of check_page_break with
\* y - needed_height >= bottom_margin + buffer (5 pt two-column, 15 pt base
\* and modern, 0 minimal) returns y, starts no page, leaves current_page and
\* the canvas alone and does not call the redraw function.
C2_NoBreakIsIdentity ==
    (/\ call.op = "check_page_break"
     /\ call.y - call.needed_height >= layout.bottom_margin + BufferOf(tmpl))
    => /\ call.ret = call.y
       /\ shows = call.shows_before
       /\ current_page = call.page_before
       /\ Len(log) = call.log_before
       /\ canvas = call.canvas_before

\* the boundary case: the block ends exactly on bottom_margin + buffer
C2_Witness ==
    /\ call.op = "check_page_break"
    /\ tmpl = "minimal"
    /\ call.y - call.needed_height = layout.bottom_margin + BufferOf(tmpl)
    /\ call.callback = "draw_header"
    /\ call.needed_height > 0
    /\ current_page = 2

-----------------------------------------------------------------------------
(* Properties of a render, read off the drawing log                        *)

\* the log entries that put content on the page
IsDraw(e) == e.op \in {"header", "text", "bullet"}

\* C4: in the two-column layout, whenever a column draws twice on one page,
\* the later drawing is at a cursor less than or equal to the earlier one.
C4_ColumnCursorNeverIncreases ==
    tmpl = "two_column" =>
        \A i, j \in 1..Len(log) :
            (/\ i < j
             /\ IsDraw(log[i]) /\ IsDraw(log[j])
             /\ log[i].col = log[j].col
             /\ log[i].page = log[j].page)
            => log[j].top <= log[i].top

\* the first content a column draws on a page
FirstOnPage(j) ==
    /\ IsDraw(log[j])
    /\ \A i \in 1..(j - 1) :
          ~(IsDraw(log[i]) /\ log[i].col = log[j].col /\ log[i].page = log[j].page)

\* C5: in the two-column layout, on every page after the first, the first
\* content of each column starts at page_height - banner_height - top_margin.
C5_ColumnsRestartAtTop ==
    tmpl = "two_column" =>
        \A j \in 1..Len(log) :
            (FirstOnPage(j) /\ log[j].page > 1) => log[j].top = ContentTopTC

\* a page advance made while the left column was being rendered: the first
\* content drawn after it belongs to the left column
LeftColumnAdvanced ==
    \E i \in 1..Len(log) :
        /\ log[i].op = "showPage"
        /\ \E j \in (i + 1)..Len(log) :
              /\ log[j].col = "L"
              /\ \A k \in (i + 1)..(j - 1) : log[k].col = "-"

\* C6: when the right column goes on to experience and projects, it starts
\* at the top-of-content cursor if rendering the left column advanced the
\* page, and at the cursor where the profile ended otherwise.
C6_RightColumnResume ==
    (tmpl = "two_column" /\ pc = "experience") =>
        cur.right_y = IF LeftColumnAdvanced THEN ContentTopTC
                      ELSE cur.right_y_after_profile

\* C9: every block the two-column template estimates before drawing it
\* (skill category, education item, company, project) moves the cursor down
\* by exactly its estimate.
C9_EstimateEqualsDrawnHeight ==
    tmpl = "two_column" =>
        \A i \in 1..Len(log) :
            (/\ log[i].op = "block"
             /\ log[i].sec \in {"skills", "education", "experience", "projects"})
            => log[i].est = log[i].top - log[i].bot

-----------------------------------------------------------------------------
(* Direct calls of the three height estimators                             *)

\* two paragraphs separated by an empty line, as "abcabc ab\n\nabcabcab ab"
TwoParagraphs == << <<wAbcabc, wAb>>, << >>, <<wAbcabcab, wAb>> >>

EstimatorTexts ==
    { TextOf(id) : id \in {"none", "short", "medium", "long"} } \cup {TwoParagraphs}

EstimatorWidths == {250, 300, 400, 500, 600, 800, 1080}
EstimatorLineHeights == {line_spacing, Times(line_spacing, 13)}
EstimatorFonts == {BodyFont, TitleFont, HeaderFont}

\* the arguments of the call to come are drawn here and kept in cur
InitEstimate ==
    /\ tmpl = "base"
    /\ pc = "called"
    /\ doc = HarnessDoc
    /\ layout = CHOOSE l \in Layouts : TRUE
    /\ current_page = 1
    /\ shows = 0
    /\ canvas = [fill |-> "black", font |-> BodyFont]
    /\ log = << >>
    /\ cur \in [text : EstimatorTexts, max_width : EstimatorWidths,
                line_height : EstimatorLineHeights, hyphenate : BOOLEAN,
                font : EstimatorFonts]
    /\ call = NoCall

Estimated(op, ret) ==
    [op |-> op, text |-> cur.text, max_width |-> cur.max_width,
     line_height |-> cur.line_height, hyphenate |-> cur.hyphenate,
     font |-> cur.font, ret |-> ret]

CallEstimateTextHeight ==
    /\ pc = "called" /\ call = NoCall
    /\ call' = Estimated("estimate_text_height",
                         estimate_text_height(cur.text, cur.max_width, cur.line_height,
                                              cur.hyphenate, cur.font))
    /\ UNCHANGED <<tmpl, pc, doc, layout, current_page, shows, canvas, log, cur>>

CallEstimateTextBlockHeight ==
    /\ pc = "called" /\ call = NoCall
    /\ call' = Estimated("estimate_text_block_height",
                         estimate_text_block_height(cur.text, cur.max_width, cur.font,
                                                    cur.line_height, cur.hyphenate))
    /\ UNCHANGED <<tmpl, pc, doc, layout, current_page, shows, canvas, log, cur>>

CallCalculateTextHeight ==
    /\ pc = "called" /\ call = NoCall
    /\ call' = Estimated("calculate_text_height",
                         calculate_text_height(cur.text, cur.max_width, cur.font,
                                               cur.line_height, cur.hyphenate))
    /\ UNCHANGED <<tmpl, pc, doc, layout, current_page, shows, canvas, log, cur>>

NextEstimate ==
    \/ CallEstimateTextHeight
    \/ CallEstimateTextBlockHeight
    \/ CallCalculateTextHeight

SpecEstimate == InitEstimate /\ [][NextEstimate]_vars

EstimatorNames ==
    {"estimate_text_height", "estimate_text_block_height", "calculate_text_height"}

\* C10: each of estimate_text_height, estimate_text_block_height and
\* calculate_text_height returns the number of lines wrap_text yields for the
\* same text, width, font and hyphenation flag, times the line height.
C10_EstimateIsLinesTimesLineHeight ==
    call.op \in EstimatorNames =>
        call.ret = Len(wrap_text(call.text, call.max_width, call.hyphenate, call.font))
                   * call.line_height

\* an estimate of a text whose line count depends on the hyphenation flag
C10_Witness ==
    /\ call.op = "estimate_text_block_height"
    /\ call.hyphenate
    /\ call.ret > call.line_height
    /\ Len(wrap_text(call.text, call.max_width, TRUE, call.font))
         # Len(wrap_text(call.text, call.max_width, FALSE, call.font))

\* the page advances among the first n log entries
RECURSIVE ShowPagesIn(_)
ShowPagesIn(n) ==
    IF n = 0 THEN 0
    ELSE ShowPagesIn(n - 1) + (IF log[n].op = "showPage" THEN 1 ELSE 0)

\* C3: during a render current_page is 1 plus the number of showPage calls
\* made so far: every operation is issued on page 1 + the number of page
\* advances before it, and the counter never lags behind the canvas.
C3_PageCounterMatchesCanvas ==
    /\ current_page = 1 + shows
    /\ shows = ShowPagesIn(Len(log))
    /\ \A i \in 1..Len(log) :
          log[i].page = 1 + ShowPagesIn(i) - (IF log[i].op = "showPage" THEN 1 ELSE 0)

\* a render that has advanced the page at least twice
C3_Witness ==
    /\ pc = "done"
    /\ shows >= 2
    /\ current_page = 1 + shows

\* the height below the top-of-content cursor of a template's pages
ContentHeightOf(t) ==
    CASE t = "two_column" -> ContentTopTC - layout.bottom_margin
      [] t = "modern"     -> ContentTopBase - layout.bottom_margin
      [] t = "minimal"    -> ContentTopMin - layout.bottom_margin

EntrySections == {"experience", "education", "projects"}

\* what was estimated for entry idx of section sec before it was drawn
EstimateOf(sec, idx) ==
    LET b == CHOOSE k \in 1..Len(log) :
                 log[k].op = "block" /\ log[k].sec = sec /\ log[k].idx = idx
    IN  log[b].est

\* entry idx of section sec has content on both sides of a page advance
SplitEntry(i, j) ==
    /\ i < j
    /\ IsDraw(log[i]) /\ IsDraw(log[j])
    /\ log[i].sec \in EntrySections /\ log[i].idx > 0
    /\ log[j].sec = log[i].sec /\ log[j].idx = log[i].idx
    /\ log[i].page < log[j].page

\* C7: in every template, a company, education item or project whose
\* estimated height is at most the content height of a page is drawn on one
\* page: no page advance between its first and its last drawing operation.
C7_EntriesAreNotSplit ==
    pc = "done" =>
        \A i, j \in 1..Len(log) :
            SplitEntry(i, j) => EstimateOf(log[i].sec, log[i].idx) > ContentHeightOf(tmpl)

\* C8: in every template, content drawn on a page after the first is
\* preceded by the chrome of that page, and after every page advance the
\* chrome is redrawn with nothing but the font and colour reset in between.
C8_ChromeBeforeContent ==
    /\ \A j \in 1..Len(log) :
          (IsDraw(log[j]) /\ log[j].page > 1)
          => \E i \in 1..(j - 1) : log[i].op = "chrome" /\ log[i].page = log[j].page
    /\ \A i \in 1..Len(log) :
          log[i].op = "showPage"
          => \E j \in (i + 1)..Len(log) :
                /\ log[j].op = "chrome"
                /\ \A k \in (i + 1)..(j - 1) : log[k].op \in {"setFont", "setFillColor"}

\* the minimal template has broken the page both inside a section and
\* between two sections
C8_Witness ==
    /\ tmpl = "minimal" /\ pc = "done"
    /\ shows >= 2
    /\ \E j \in 1..Len(log) : IsDraw(log[j]) /\ log[j].page = 3

-----------------------------------------------------------------------------
(* Direct calls of wrap_text and truncate_with_ellipsis on a TextProcessor  *)

MaxWords == 5
MaxChars == 6

WrapWordsOf == {wAb, wAbcab, wAbcabc, wAbcabcab}

\* the paragraphs of at most n words
RECURSIVE ParagraphsUpTo(_)
ParagraphsUpTo(n) ==
    IF n = 0 THEN {}
    ELSE LET shorter == ParagraphsUpTo(n - 1)
         IN  {<<w>> : w \in WrapWordsOf} \cup shorter
             \cup {Append(p, w) : p \in shorter, w \in WrapWordsOf}

\* one paragraph; two paragraphs separated by "\n" or by "\n\n" (which
\* split('\n') turns into an empty paragraph between them); three
\* paragraphs separated by "\n\n"
WrapTexts ==
    { <<p>> : p \in ParagraphsUpTo(MaxWords) }
    \cup { <<p, q>> : p, q \in ParagraphsUpTo(1) }
    \cup { <<p, << >>, q>> : p, q \in ParagraphsUpTo(2) }
    \cup { <<p, << >>, q, << >>, p>> : p, q \in ParagraphsUpTo(1) }

WrapWidths == {300, 400, 500, 700}

\* widths that leave no room at all, and the empty string
NonPositiveWidths == {0, -100}
EmptyText == << << >> >>

\* the arguments of direct calls of hyphenate_word: words of five, six and
\* eight letters with one or two dictionary points, a word of six letters
\* without any, and the width already used on the line
wAbabab == <<"a", "b", "a", "b", "a", "b">>
HyphenateWords == {wAb, wAbcab, wAbcabc, wAbcabcab, wAbabab}
HyphenateWidths == {0, 100, 200, 300, 400, 500, 700}
UsedWidths == {0, 100, 150, 200, 300}

\* the strings of one to n characters over a letter and the full stop
RECURSIVE StringsUpTo(_)
StringsUpTo(n) ==
    IF n = 0 THEN {}
    ELSE LET shorter == StringsUpTo(n - 1)
         IN  {<<"a">>, <<".">>} \cup shorter
             \cup {Append(s, ch) : s \in shorter, ch \in {"a", "."}}

TruncateWidths == {50, 100, 150, 200, 250, 300}

InitText ==
    /\ tmpl = "base"
    /\ doc = HarnessDoc
    /\ layout = CHOOSE l \in Layouts : TRUE
    /\ current_page = 1
    /\ shows = 0
    /\ canvas = [fill |-> "black", font |-> BodyFont]
    /\ log = << >>
    /\ call = NoCall
    /\ \/ /\ pc = "wrap"
          /\ cur \in [text : WrapTexts, max_width : WrapWidths, hyphenate : BOOLEAN,
                      font : {BodyFont, TitleFont}]
       \/ /\ pc = "wrap"
          /\ cur \in [text : WrapTexts \cup {EmptyText}, max_width : NonPositiveWidths,
                      hyphenate : BOOLEAN, font : {BodyFont}]
       \/ /\ pc = "hyphenate"
          /\ cur \in [word : HyphenateWords, max_width : HyphenateWidths,
                      current_line_width : UsedWidths, font : {BodyFont, TitleFont}]
       \/ /\ pc = "truncate"
          /\ cur \in [text : StringsUpTo(MaxChars), max_width : TruncateWidths,
                      hyphenate : {FALSE}, font : {BodyFont, TitleFont}]

CallWrapText ==
    /\ pc = "wrap" /\ call = NoCall
    /\ call' = [op |-> "wrap_text", text |-> cur.text, max_width |-> cur.max_width,
                hyphenate |-> cur.hyphenate, font |-> cur.font,
                ret |-> wrap_text(cur.text, cur.max_width, cur.hyphenate, cur.font)]
    /\ UNCHANGED <<tmpl, pc, doc, layout, current_page, shows, canvas, log, cur>>

CallTruncateWithEllipsis ==
    /\ pc = "truncate" /\ call = NoCall
    /\ call' = [op |-> "truncate_with_ellipsis", text |-> cur.text,
                max_width |-> cur.max_width, hyphenate |-> cur.hyphenate,
                font |-> cur.font,
                ret |-> truncate_with_ellipsis(cur.text, cur.max_width, cur.font)]
    /\ UNCHANGED <<tmpl, pc, doc, layout, current_page, shows, canvas, log, cur>>

CallHyphenateWord ==
    /\ pc = "hyphenate" /\ call = NoCall
    /\ call' = [op |-> "hyphenate_word", word |-> cur.word, max_width |-> cur.max_width,
                current_line_width |-> cur.current_line_width, font |-> cur.font,
                ret |-> hyphenate_word(cur.word, cur.max_width, cur.current_line_width,
                                       cur.font)]
    /\ UNCHANGED <<tmpl, pc, doc, layout, current_page, shows, canvas, log, cur>>

NextText ==
    \/ CallWrapText
    \/ CallTruncateWithEllipsis
    \/ CallHyphenateWord

SpecText == InitText /\ [][NextText]_vars

-----------------------------------------------------------------------------
(* Properties of wrap_text and truncate_with_ellipsis                      *)

Range(f) == {f[x] : x \in DOMAIN f}

\* the words of a sequence of paragraphs or lines, in order
RECURSIVE WordsOf(_)
WordsOf(lines) == IF lines = << >> THEN << >> ELSE Head(lines) \o WordsOf(Tail(lines))

\* a line that ends in a hyphen the wrapping inserted (no word of the
\* inputs holds a hyphen)
Hyphenated(line) ==
    line # << >> /\ line[Len(line)][Len(line[Len(line)])] = "-"

\* C11: when every word of the text is narrower than max_width, every line
\* of the result that does not end in an inserted hyphen measures at most
\* max_width (its words joined by single spaces).
C11_LinesFitTheWidth ==
    (/\ call.op = "wrap_text"
     /\ \A w \in Range(WordsOf(call.text)) : WordWidth(w, call.font) < call.max_width)
    => \A k \in 1..Len(call.ret) :
          ~Hyphenated(call.ret[k]) => GetTextWidth(call.ret[k], call.font) <= call.max_width

\* a result with a line flushed by the short-next-word rule or a line that
\* starts with a hyphenation remainder and holds a further word
C11_Witness ==
    /\ call.op = "wrap_text"
    /\ \A w \in Range(WordsOf(call.text)) : WordWidth(w, call.font) < call.max_width
    /\ \E k \in 1..(Len(call.ret) - 1) :
          /\ Hyphenated(call.ret[k])
          /\ Len(call.ret[k + 1]) > 1
          /\ ~Hyphenated(call.ret[k + 1])
    /\ \E k \in 1..(Len(call.ret) - 1) :
          /\ ~Hyphenated(call.ret[k])
          /\ call.ret[k] # << >> /\ call.ret[k + 1] # << >>
          /\ GetTextWidth(Append(call.ret[k], call.ret[k + 1][1]), call.font)
               <= call.max_width

\* the words of the lines, each fragment that ends a line in an inserted
\* hyphen rejoined with the remainder that starts the next line
RECURSIVE Rejoined(_)
Rejoined(lines) ==
    IF lines = << >> THEN << >>
    ELSE LET line == Head(lines)
         IN  IF Hyphenated(line) /\ Len(lines) > 1 /\ lines[2] # << >>
             THEN Rejoined(<<Front(line) \o <<Front(line[Len(line)]) \o lines[2][1]>>
                             \o Tail(lines[2])>>
                           \o Tail(Tail(lines)))
             ELSE line \o Rejoined(Tail(lines))

\* C12: the words of the lines wrap_text returns, read in order with the
\* hyphenated fragments rejoined, are exactly the words of the input, also
\* when a word is wider than max_width.
C12_WordsArePreserved ==
    call.op = "wrap_text" => Rejoined(call.ret) = WordsOf(call.text)

\* a result that holds a word wider than max_width, a hyphenated word and a
\* line flushed before a word that did not fit
C12_Witness ==
    /\ call.op = "wrap_text"
    /\ \E w \in Range(WordsOf(call.text)) : WordWidth(w, call.font) > call.max_width
    /\ \E k \in 1..Len(call.ret) : Hyphenated(call.ret[k])
    /\ Len(call.ret) >= 3
    /\ Rejoined(call.ret) = WordsOf(call.text)

\* nonempty paragraphs with one blank line ("\n\n") between neighbours
BlankLineSeparated(text) ==
    /\ Len(text) % 2 = 1
    /\ \A k \in 1..Len(text) : (text[k] = << >>) <=> (k % 2 = 0)

EmptyLinesOf(lines) == Cardinality({k \in 1..Len(lines) : lines[k] = << >>})

\* C13: for paragraphs separated by one blank line each, the result of
\* wrap_text holds exactly one empty line between the lines of consecutive
\* paragraphs; and no result ends with an empty line.
C13_OneEmptyLineBetweenParagraphs ==
    call.op = "wrap_text" =>
        /\ call.ret # << >> => call.ret[Len(call.ret)] # << >>
        /\ BlankLineSeparated(call.text) =>
              /\ EmptyLinesOf(call.ret) = (Len(call.text) - 1) \div 2
              /\ \A k \in 1..(Len(call.ret) - 1) :
                    ~(call.ret[k] = << >> /\ call.ret[k + 1] = << >>)

EndsInEllipsis(s) == Len(s) >= 3 /\ SubSeq(s, Len(s) - 2, Len(s)) = Ellipsis

\* C15: for a text wider than max_width, with max_width greater than the
\* width of "...", truncate_with_ellipsis returns a string that ends in
\* "...", is at most max_width wide and has at most as many characters as
\* the text.
C15_TruncationShortens ==
    (/\ call.op = "truncate_with_ellipsis"
     /\ StringWidth(call.text, call.font) > call.max_width
     /\ call.max_width > StringWidth(Ellipsis, call.font))
    => /\ EndsInEllipsis(call.ret)
       /\ StringWidth(call.ret, call.font) <= call.max_width
       /\ Len(call.ret) <= Len(call.text)

-----------------------------------------------------------------------------
(* Termination and page count of a render                                  *)

\* the routines of a render in the order in which it runs them; a render
\* that has returned or raised is at the end
Position(p) ==
    CASE p = "idle" -> 0
      [] p \in {"skills", "m_profile", "s_contact"} -> 1
      [] p \in {"profile", "m_skills", "s_skills"} -> 2
      [] p \in {"education", "m_experience", "s_education"} -> 3
      [] p \in {"more_details", "m_education", "s_info"} -> 4
      [] p \in {"resume_right", "m_projects", "r_profile"} -> 5
      [] p \in {"experience", "m_info", "r_experience"} -> 6
      [] p \in {"projects", "r_projects"} -> 7
      [] p \in {"done", "raised"} -> 8

\* C14: a render comes to its end, since every step of it takes it to a
\* later routine of the finite sequence and no routine is entered again;
\* and at every moment the number of page advances is at most the number of
\* page-break tests evaluated so far: one test ends at most one page.
C14_RenderTerminates ==
    /\ [][Position(pc') > Position(pc)]_vars
    /\ [](shows <= cur.checks)

\* a finished render in which two tests ended a page and others did not
C14_Witness ==
    /\ pc = "done"
    /\ shows >= 2
    /\ shows < cur.checks

-----------------------------------------------------------------------------
(* Sections without content in the two-column template                     *)

\* the positions of generate_coordinated_layout at which an add_*_section
\* call is the next step
SectionCalls == {"skills", "profile", "education", "more_details", "experience", "projects"}

\* the content of the section called at position p is missing or empty
WithoutContent(p) ==
    CASE p = "skills" -> doc.nSkills = 0
      [] p = "profile" -> doc.nProfile = 0
      [] p = "education" -> doc.edu <= 0
      [] p = "more_details" -> doc.nInfo = 0
      [] p = "experience" -> doc.nCompanies = 0
      [] p = "projects" -> doc.nProjects = 0

\* the start_y passed to the section called at position p
StartCursor(p) ==
    CASE p \in {"skills", "profile"} -> cur.initial_start_y
      [] p = "education" -> cur.left_y_after_skills
      [] p = "more_details" -> cur.left_y
      [] p \in {"experience", "projects"} -> cur.right_y

\* the local of generate_coordinated_layout that receives the value returned
\* by the section called at position p, in the locals c after the call
ReturnedCursor(p, c) ==
    CASE p = "skills" -> c.left_y_after_skills
      [] p = "profile" -> c.right_y_after_profile
      [] p \in {"education", "more_details"} -> c.left_y
      [] p \in {"experience", "projects"} -> c.right_y

\* C18: a two-column add_*_section whose content is missing or empty (no
\* technical skills, empty profile, no education, no companies, no projects,
\* no additional info) returns its start cursor, draws nothing and advances
\* no page.
C18_EmptySectionIsSkipped ==
    [][(tmpl = "two_column" /\ pc \in SectionCalls /\ WithoutContent(pc)) =>
          /\ ReturnedCursor(pc, cur') = StartCursor(pc)
          /\ log' = log
          /\ shows' = shows
          /\ current_page' = current_page]_vars

\* C19: TwoColumnTemplate.render runs to its end without raising for every
\* validated document, whatever the number of its contact details and
\* whichever optional sections are missing.
C19_TwoColumnRenderNeverRaises == tmpl = "two_column" => pc # "raised"

-----------------------------------------------------------------------------
(* A second render through the same template object.  CVGenerator keeps    *)
(* one object for each template name (register_default_templates) and      *)
(* every generation renders through it on a canvas of its own.             *)

\* the render that has ended is recorded, and the same document, theme and
\* layout are about to be rendered again: the canvas is new, the fields of
\* the template object (current_page, section_heights) are as the first
\* render left them, the locals of the first render are gone
RenderAgain ==
    /\ pc \in {"done", "raised"} /\ call = NoCall
    /\ call' = [op |-> "render", pc |-> pc, log |-> log, shows |-> shows,
                current_page |-> current_page]
    /\ pc' = "idle"
    /\ log' = << >>
    /\ shows' = 0
    /\ canvas' = [fill |-> "black", font |-> BodyFont]
    /\ cur' = [NoLocals EXCEPT !.section_heights = cur.section_heights]
    /\ UNCHANGED <<tmpl, doc, layout, current_page>>

NextAgain == Next \/ RenderAgain

\* the documents rendered twice: those whose left-column texts are long,
\* and those with fewer than two contact details
InitAgain == Init /\ (doc.leftText = "long" \/ doc.nContacts < 2)

SpecAgain == InitAgain /\ [][NextAgain]_vars

\* C20: the second render of the same document, theme and layout through
\* the same template object ends as the first one did, with the same
\* operations on its canvas in the same order (the page breaks and the drawn
\* text among them), the same number of showPage calls and the same final
\* current_page: nothing that the first render left in the object affects it.
C20_SecondRenderIsTheSame ==
    (call.op = "render" /\ pc \in {"done", "raised"}) =>
        /\ pc = call.pc
        /\ log = call.log
        /\ shows = call.shows
        /\ current_page = call.current_page

\* a second render by the minimal template, which reads section_heights,
\* after a first one that ended on a later page
C20_Witness ==
    /\ call.op = "render"
    /\ pc = "done"
    /\ tmpl = "minimal"
    /\ call.current_page > 1
    /\ cur.section_heights = _pre_calculate_section_heights
    /\ shows >= 1

-----------------------------------------------------------------------------
(* Floating-point arithmetic of the density and spacing computations.      *)
(* A number is an integer count of units of 2^-Frac.  Every operation      *)
(* rounds its exact result to Precision significant bits, ties to even:    *)
(* the arithmetic of a Python float, whose significand has 53 bits, at a   *)
(* significand that the products still fit the integers of the checker.    *)

Precision == 10

Frac == Precision + 6

Pow2(n) == 2 ^ n

Abs(x) == IF x < 0 THEN -x ELSE x

Sign(x) == IF x < 0 THEN -1 ELSE 1

\* the number of low bits that n has beyond Precision significant bits
RECURSIVE ExcessBits(_)
ExcessBits(n) == IF n < Pow2(Precision) THEN 0 ELSE 1 + ExcessBits(n \div 2)

\* n scaled by 2^t; the bits shifted out are rounded to nearest, ties to even
Scaled(n, t) ==
    IF t >= 0 THEN n * Pow2(t)
    ELSE LET ulp == Pow2(-t)
             q == n \div ulp
             r == n % ulp
         IN  IF 2 * r > ulp \/ (2 * r = ulp /\ q % 2 = 1) THEN q + 1 ELSE q

\* the natural number n rounded to Precision significant bits
RoundNat(n) == Scaled(n, -ExcessBits(n)) * Pow2(ExcessBits(n))

Round(x) == Sign(x) * RoundNat(Abs(x))

RECURSIVE TrailingZeros(_)
TrailingZeros(n) == IF n = 0 \/ n % 2 = 1 THEN 0 ELSE 1 + TrailingZeros(n \div 2)

\* float(n) of an integer n
FromInt(n) == Round(n) * Pow2(Frac)

FAdd(a, b) == Round(a + b)

FSub(a, b) == Round(a - b)

\* the product of a = m * 2^i and b = n * 2^j is m * n, rounded, at the
\* exponent i + j
FMulAt(a, b, i, j) ==
    Scaled(RoundNat((a \div Pow2(i)) * (b \div Pow2(j))), i + j - Frac)

FMulNat(a, b) == FMulAt(a, b, TrailingZeros(a), TrailingZeros(b))

FMul(a, b) == Sign(a) * Sign(b) * FMulNat(Abs(a), Abs(b))

\* the least k at which num * 2^k / den has Precision + 2 bits
RECURSIVE QuotientShift(_, _)
QuotientShift(num, den) ==
    IF num >= den * Pow2(Precision + 1) THEN 0 ELSE 1 + QuotientShift(2 * num, den)

\* the quotient num * 2^k / den with a sticky bit below it, rounded, at the
\* exponent t
FDivBy(num, den, t, k) ==
    Scaled(RoundNat(2 * ((num * Pow2(k)) \div den)
                    + (IF (num * Pow2(k)) % den = 0 THEN 0 ELSE 1)),
           t - k - 1)

FDivAt(num, den, t) == FDivBy(num, den, t, QuotientShift(num, den))

\* the quotient of a = m * 2^i and b = n * 2^j is m / n at the exponent i - j
FDivTo(a, b, i, j) == FDivAt(a \div Pow2(i), b \div Pow2(j), i - j + Frac)

FDivNat(a, b) ==
    IF a = 0 THEN 0 ELSE FDivTo(a, b, TrailingZeros(a), TrailingZeros(b))

FDiv(a, b) == Sign(a) * Sign(b) * FDivNat(Abs(a), Abs(b))

\* a decimal literal num/den of the source, as the parser rounds it
Literal(num, den) == FDiv(FromInt(num), FromInt(den))

-----------------------------------------------------------------------------
(* cv_generator.py, cv_data.py: the content density of a document and the  *)
(* spacing chosen from it.  Of a document the density reads the length of  *)
(* the profile, the companies (each the sequence of its roles, a role the  *)
(* number of its responsibilities), and the numbers of education items and *)
(* projects.  Scores, ratios and spacings are floats.                       *)

\* roles_count += len(company.get("roles", [])) over the companies
RECURSIVE roles_count(_)
roles_count(companies) ==
    IF companies = << >> THEN 0
    ELSE Len(Head(companies)) + roles_count(Tail(companies))

\* len(role.get("responsibilities", [])) summed over the roles of a company
RECURSIVE SumOf(_)
SumOf(roles) == IF roles = << >> THEN 0 ELSE Head(roles) + SumOf(Tail(roles))

RECURSIVE responsibilities_count(_)
responsibilities_count(companies) ==
    IF companies = << >> THEN 0
    ELSE SumOf(Head(companies)) + responsibilities_count(Tail(companies))

\* the float literals of the density and spacing functions
Tenth == Literal(1, 10)
TwoTenths == Literal(2, 10)
ThreeTenths == Literal(3, 10)
Dense == Literal(8, 10)
Sparse == Literal(4, 10)
One == FromInt(1)

\* count * weight / expected
Weighted(count, weight, expected) ==
    FDiv(FMul(FromInt(count), weight), FromInt(expected))

\* the weighted score of cv_generator.py 300-307 and cv_data.py 379-386,
\* summed from left to right
total_score(cv_data) ==
    FAdd(FAdd(FAdd(FAdd(FAdd(Weighted(cv_data.profile_length, Tenth, 1000),
                             Weighted(Len(cv_data.companies), ThreeTenths, 4)),
                        Weighted(roles_count(cv_data.companies), TwoTenths, 6)),
                   Weighted(responsibilities_count(cv_data.companies), TwoTenths, 15)),
              Weighted(cv_data.education_count, Tenth, 3)),
         Weighted(cv_data.projects_count, Tenth, 4))

\* a clamp that wraps a score above 1 around to 0
ClampWrapping(score) == IF score > One THEN 0 ELSE score

\* max(0, min(1, total_score))
Clamp(score) ==
    IF score > One THEN One ELSE IF score < 0 THEN 0 ELSE score

\* CVGenerator._calculate_content_density (268-313)
_calculate_content_density(cv_data) == Clamp(total_score(cv_data))

\* CVData.get_content_density (350-392)
get_content_density(cv_data) == Clamp(total_score(cv_data))

Inches(num, den) == FMul(Literal(num, den), FromInt(72))

\* CVGenerator._adjust_theme_for_content_density (585-646): the sizes and
\* spacings of the Theme it returns
_adjust_theme_for_content_density(content_density) ==
    IF content_density > Dense
    THEN [header_font_size |-> FromInt(13), body_font_size |-> FromInt(11),
          line_spacing |-> FromInt(12), section_spacing |-> Inches(25, 100),
          paragraph_spacing |-> Inches(1, 10)]
    ELSE IF content_density < Sparse
    THEN [header_font_size |-> FromInt(16), body_font_size |-> FromInt(12),
          line_spacing |-> FromInt(14), section_spacing |-> Inches(35, 100),
          paragraph_spacing |-> Inches(15, 100)]
    ELSE [header_font_size |-> FromInt(14), body_font_size |-> Literal(115, 10),
          line_spacing |-> FromInt(13), section_spacing |-> Inches(3, 10),
          paragraph_spacing |-> Inches(12, 100)]

\* the three spacings _apply_dynamic_spacing writes for a density
DynamicSpacing(content_density) ==
    IF content_density > Dense
    THEN [section_spacing |-> Inches(2, 10), line_spacing |-> FromInt(10),
          paragraph_spacing |-> Inches(8, 100)]
    ELSE IF content_density < Sparse
    THEN [section_spacing |-> Inches(4, 10), line_spacing |-> FromInt(12),
          paragraph_spacing |-> Inches(15, 100)]
    ELSE [section_spacing |-> Inches(3, 10), line_spacing |-> FromInt(11),
          paragraph_spacing |-> Inches(12, 100)]

\* CVGenerator._apply_dynamic_spacing (232-266)
_apply_dynamic_spacing(cv_data, layout_data) ==
    [f \in DOMAIN layout_data |->
        IF f \in {"section_spacing", "line_spacing", "paragraph_spacing"}
        THEN DynamicSpacing(_calculate_content_density(cv_data))[f]
        ELSE layout_data[f]]

\* BaseTemplate.adjust_section_spacing (640-668)
adjust_section_spacing(current_spacing, content_ratio, min_spacing, max_spacing) ==
    IF content_ratio > Dense THEN min_spacing
    ELSE IF content_ratio < Sparse THEN max_spacing
    ELSE LET normalized_ratio == FDiv(FSub(content_ratio, Sparse), Sparse)
         IN  FSub(max_spacing, FMul(normalized_ratio, FSub(max_spacing, min_spacing)))

-----------------------------------------------------------------------------
(* Direct calls of the density and spacing functions.  A document is       *)
(* scored, one of its sections is replaced by one with a further entry     *)
(* (CVData.update_section) and it is scored again; the spacing functions   *)
(* are called on densities around the two thresholds.                      *)

MaxRoles == 2
MaxResponsibilities == 2

ProfileLengths == {0, 1500, 7000}

\* an empty document for each length of the profile
EmptyCvData(n) ==
    [profile_length |-> n, companies |-> << >>, education_count |-> 0,
     projects_count |-> 0]

\* documents whose densities lie in the three tiers and at the clamp
SpacingCvData ==
    { [profile_length |-> n, companies |-> c, education_count |-> e,
       projects_count |-> e] :
        n \in ProfileLengths, c \in {<< >>, <<<<2, 1>>, <<3>>>>}, e \in {0, 3} }

\* 0.0, 0.2, 0.39, 0.4, 0.41, 0.6, 0.79, 0.8, 0.81 and 1.0
Densities == { Literal(n, 100) : n \in {0, 20, 39, 40, 41, 60, 79, 80, 81, 100} }

\* 0.1, 0.2, 0.3 and 0.4 inch
Spacings == { Inches(n, 10) : n \in 1..4 }

LayoutData ==
    [top_margin |-> Inches(4, 10), section_spacing |-> Inches(3, 10),
     line_spacing |-> FromInt(13), paragraph_spacing |-> Inches(12, 100)]

InitDensity ==
    /\ tmpl = "base"
    /\ doc = HarnessDoc
    /\ layout = CHOOSE l \in Layouts : TRUE
    /\ current_page = 1
    /\ shows = 0
    /\ canvas = [fill |-> "black", font |-> BodyFont]
    /\ log = << >>
    /\ call = NoCall
    /\ \/ /\ pc = "new"
          /\ cur \in { [cv_data |-> EmptyCvData(n)] : n \in ProfileLengths }
       \/ /\ pc = "spacing"
          /\ cur \in [cv_data : SpacingCvData, content_density : Densities,
                      min_spacing : Spacings, max_spacing : Spacings]

\* the call record of a density function: the section updated since the
\* score before, if there was one
Scored(op, score) ==
    [op |-> op, score |-> score,
     section |-> IF pc = "updated" THEN call.section ELSE "none",
     before |-> IF pc = "updated" THEN call.score ELSE score]

CallCalculateContentDensity ==
    /\ pc \in {"new", "updated"}
    /\ call' = Scored("_calculate_content_density", _calculate_content_density(cur.cv_data))
    /\ pc' = "scored"
    /\ UNCHANGED <<tmpl, doc, layout, current_page, shows, canvas, log, cur>>

CallGetContentDensity ==
    /\ pc \in {"new", "updated"}
    /\ call' = Scored("get_content_density", get_content_density(cur.cv_data))
    /\ pc' = "scored"
    /\ UNCHANGED <<tmpl, doc, layout, current_page, shows, canvas, log, cur>>

\* the documents that have one entry more than cv_data in the named place
\* (a longer profile, a further company, a further role of the last company,
\* a further responsibility of its last role, ...) and are the same elsewhere
Updated(cv_data, section) ==
    CASE section = "profile" ->
           { [cv_data EXCEPT !.profile_length = n] :
               n \in { m \in ProfileLengths : m > cv_data.profile_length } }
      [] section = "companies" ->
           IF Len(cv_data.companies) < MaxItems
           THEN { [cv_data EXCEPT !.companies = Append(@, << >>)] }
           ELSE { }
      [] section = "roles" ->
           IF cv_data.companies # << >> /\ roles_count(cv_data.companies) < MaxRoles
           THEN { [cv_data EXCEPT !.companies[Len(cv_data.companies)] = Append(@, 0)] }
           ELSE { }
      [] section = "responsibilities" ->
           IF /\ cv_data.companies # << >>
              /\ cv_data.companies[Len(cv_data.companies)] # << >>
              /\ responsibilities_count(cv_data.companies) < MaxResponsibilities
           THEN { [cv_data EXCEPT !.companies[Len(cv_data.companies)] =
                                     [@ EXCEPT ![Len(@)] = @ + 1]] }
           ELSE { }
      [] section = "education" ->
           IF cv_data.education_count < MaxItems
           THEN { [cv_data EXCEPT !.education_count = @ + 1] }
           ELSE { }
      [] section = "projects" ->
           IF cv_data.projects_count < MaxItems
           THEN { [cv_data EXCEPT !.projects_count = @ + 1] }
           ELSE { }

Sections == {"profile", "companies", "roles", "responsibilities", "education", "projects"}

\* CVData.update_section (339-348) with a section that has one entry more
UpdateSection ==
    /\ pc = "scored"
    /\ \E section \in Sections :
          /\ cur' \in { [cur EXCEPT !.cv_data = d] : d \in Updated(cur.cv_data, section) }
          /\ call' = [op |-> "update_section", score |-> call.score,
                      section |-> section, before |-> call.score]
    /\ pc' = "updated"
    /\ UNCHANGED <<tmpl, doc, layout, current_page, shows, canvas, log>>

CallAdjustThemeForContentDensity ==
    /\ pc = "spacing" /\ call = NoCall
    /\ call' = [op |-> "_adjust_theme_for_content_density",
                content_density |-> cur.content_density,
                ret |-> _adjust_theme_for_content_density(cur.content_density)]
    /\ UNCHANGED <<tmpl, pc, doc, layout, current_page, shows, canvas, log, cur>>

CallApplyDynamicSpacing ==
    /\ pc = "spacing" /\ call = NoCall
    /\ call' = [op |-> "_apply_dynamic_spacing",
                content_density |-> _calculate_content_density(cur.cv_data),
                ret |-> _apply_dynamic_spacing(cur.cv_data, LayoutData)]
    /\ UNCHANGED <<tmpl, pc, doc, layout, current_page, shows, canvas, log, cur>>

CallAdjustSectionSpacing ==
    /\ pc = "spacing" /\ call = NoCall
    /\ call' = [op |-> "adjust_section_spacing",
                content_density |-> cur.content_density,
                min_spacing |-> cur.min_spacing, max_spacing |-> cur.max_spacing,
                ret |-> adjust_section_spacing(LayoutData.section_spacing,
                                               cur.content_density,
                                               cur.min_spacing, cur.max_spacing)]
    /\ UNCHANGED <<tmpl, pc, doc, layout, current_page, shows, canvas, log, cur>>

NextDensity ==
    \/ CallCalculateContentDensity
    \/ CallGetContentDensity
    \/ UpdateSection
    \/ CallAdjustThemeForContentDensity
    \/ CallApplyDynamicSpacing
    \/ CallAdjustSectionSpacing

SpecDensity == InitDensity /\ [][NextDensity]_vars

-----------------------------------------------------------------------------
(* Properties of the density score and of the spacing chosen from it       *)

DensityNames == {"_calculate_content_density", "get_content_density"}

\* C16: a document scored again, by either density function, after one of
\* its structural counts (profile length, companies, roles, responsibilities,
\* education items, projects) was raised and the others kept, has a score
\* that is not below the score before, also when the sum passes the clamp
\* at 1.
C16_DensityIsMonotone ==
    (call.op \in DensityNames /\ call.section # "none") =>
        call.before <= call.score

\* a sum that a further company takes from below 1 to above 1, scored 1
C16_Witness ==
    /\ call.op \in DensityNames
    /\ call.section = "companies"
    /\ call.before < One
    /\ total_score(cur.cv_data) > One
    /\ call.score = One

\* the line, section and paragraph spacing of a are at most those of b
NotLarger(a, b) ==
    /\ a.line_spacing <= b.line_spacing
    /\ a.section_spacing <= b.section_spacing
    /\ a.paragraph_spacing <= b.paragraph_spacing

\* the tier of a density: above 0.8 dense, below 0.4 sparse, balanced between
\* and at the two thresholds
Tier(content_density) ==
    IF content_density > Dense THEN "dense"
    ELSE IF content_density < Sparse THEN "sparse" ELSE "balanced"

\* the spacings of the two tiered functions, by tier
ThemeOfTier(tier) ==
    CASE tier = "dense" -> _adjust_theme_for_content_density(One)
      [] tier = "sparse" -> _adjust_theme_for_content_density(0)
      [] tier = "balanced" -> _adjust_theme_for_content_density(Literal(6, 10))

LayoutOfTier(tier) ==
    CASE tier = "dense" -> DynamicSpacing(One)
      [] tier = "sparse" -> DynamicSpacing(0)
      [] tier = "balanced" -> DynamicSpacing(Literal(6, 10))

\* the theme and the layout spacings are those of the tier of the density,
\* and no denser input gets a larger one
TieredSpacingIsMonotone ==
    /\ call.op = "_adjust_theme_for_content_density" =>
          /\ call.ret = ThemeOfTier(Tier(call.content_density))
          /\ \A d \in Densities :
                call.content_density <= d =>
                    NotLarger(_adjust_theme_for_content_density(d), call.ret)
    /\ call.op = "_apply_dynamic_spacing" =>
          /\ \A f \in DOMAIN LayoutOfTier("dense") :
                call.ret[f] = LayoutOfTier(Tier(call.content_density))[f]
          /\ \A d \in SpacingCvData :
                call.content_density <= _calculate_content_density(d) =>
                    NotLarger(_apply_dynamic_spacing(d, LayoutData), call.ret)

\* with min_spacing <= max_spacing, a ratio above 0.8 gets min_spacing, one
\* below 0.4 max_spacing, and no larger ratio gets a larger spacing
InterpolatedSpacingIsMonotone ==
    (call.op = "adjust_section_spacing" /\ call.min_spacing <= call.max_spacing) =>
        /\ Tier(call.content_density) = "dense" => call.ret = call.min_spacing
        /\ Tier(call.content_density) = "sparse" => call.ret = call.max_spacing
        /\ \A d \in Densities :
              call.content_density <= d =>
                  adjust_section_spacing(LayoutData.section_spacing, d,
                                         call.min_spacing, call.max_spacing)
                  <= call.ret

\* C17: the spacing chosen from a density is monotone: for densities
\* d1 <= d2 the line, section and paragraph spacing that
\* _adjust_theme_for_content_density, _apply_dynamic_spacing and (with
\* min_spacing <= max_spacing) adjust_section_spacing choose for d2 are not
\* larger than those for d1; densities above 0.8 get the dense tier, below
\* 0.4 the sparse tier, and 0.4 and 0.8 themselves the balanced tier.
C17_SpacingIsMonotone ==
    /\ TieredSpacingIsMonotone
    /\ InterpolatedSpacingIsMonotone

-----------------------------------------------------------------------------
(* Coordination of the two columns (generate_coordinated_layout)           *)

\* the locals of generate_coordinated_layout that hold a column's cursor
ColumnCursors == {"left_y", "right_y"}

\* C21: in the two-column render a column's cursor is set to the
\* top-of-content value only in a step that also adds to current_page; this
\* includes the step in which the right column resumes after the left one.
C21_ResetOnlyWithPageAdvance ==
    [][(tmpl = "two_column" /\ pc \in SectionCalls \cup {"resume_right"}) =>
          \A f \in ColumnCursors :
              (cur'[f] = ContentTopTC /\ cur[f] # ContentTopTC)
              => current_page' > current_page]_vars

\* the first content that section sec has put on the page
FirstDrawOf(sec) ==
    CHOOSE j \in 1..Len(log) :
        /\ IsDraw(log[j]) /\ log[j].sec = sec
        /\ \A i \in 1..(j - 1) : ~(IsDraw(log[i]) /\ log[i].sec = sec)

HasDrawn(sec) == \E j \in 1..Len(log) : IsDraw(log[j]) /\ log[j].sec = sec

\* the sections of generate_coordinated_layout in three groups: the aligned
\* top sections, the rest of the left column, the rest of the right column
GroupOf(sec) ==
    CASE sec \in {"skills", "profile"} -> 1
      [] sec \in {"education", "info"} -> 2
      [] sec \in {"experience", "projects", "references"} -> 3

\* C22: technical skills and profile are both drawn completely, each
\* starting at the same initial cursor, before anything of the other
\* sections; then education and more details are drawn completely before
\* anything of experience and projects.
C22_AlignedTopSectionsFirst ==
    tmpl = "two_column" =>
        /\ \A i, j \in 1..Len(log) :
              (i < j /\ IsDraw(log[i]) /\ IsDraw(log[j]))
              => GroupOf(log[i].sec) <= GroupOf(log[j].sec)
        /\ \A sec \in {"skills", "profile"} :
              HasDrawn(sec) =>
                  /\ log[FirstDrawOf(sec)].top = cur.initial_start_y
                  /\ log[FirstDrawOf(sec)].top = ContentTopTC

\* a finished render in which all six sections drew and the technical
\* skills advanced the page before the profile was drawn
C22_Witness ==
    /\ tmpl = "two_column" /\ pc = "done"
    /\ \A sec \in {"skills", "profile", "education", "info", "experience", "projects"} :
          HasDrawn(sec)
    /\ log[FirstDrawOf("profile")].page > 1
    /\ log[FirstDrawOf("profile")].top = log[FirstDrawOf("skills")].top

-----------------------------------------------------------------------------
(* wrap_text without room, and hyphenate_word called directly              *)

\* C23: for a non-empty text and max_width <= 0, with hyphenation on or
\* off, wrap_text returns lines of which every non-empty one is exactly one
\* word of the input, unbroken, in the order of the input; for the empty
\* text it returns the empty sequence.
C23_NoRoomForcesSingleWordLines ==
    (call.op = "wrap_text" /\ call.max_width <= 0) =>
        IF IsEmptyText(call.text) THEN call.ret = << >>
        ELSE /\ \A k \in 1..Len(call.ret) :
                   call.ret[k] # << >> =>
                       /\ Len(call.ret[k]) = 1
                       /\ call.ret[k][1] \in Range(WordsOf(call.text))
             /\ WordsOf(call.ret) = WordsOf(call.text)

\* a call without room and with hyphenation on, for a text that holds a word
\* the dictionary can split and a short word after it
C23_Witness ==
    /\ call.op = "wrap_text" /\ call.max_width <= 0 /\ call.hyphenate
    /\ Len(call.ret) >= 3
    /\ \E k \in 1..(Len(call.ret) - 1) :
          /\ call.ret[k] = <<wAbcabcab>>
          /\ call.ret[k + 1] = <<wAb>>

\* the dictionary points of the call's word at which the prefix and its
\* hyphen fit the width left on the line
FittingPoints ==
    { p \in Positions(call.word) :
        call.current_line_width + WordWidth(Append(SubSeq(call.word, 1, p), "-"), call.font)
          <= call.max_width }

-----------------------------------------------------------------------------
(* Content units of the two-column template against their estimates        *)

IsBlock(e) == e.op = "block"

\* the unit was drawn where its page-break check found room for it, or at
\* the top of a page on which it fits
PlacedWithRoom(b) ==
    \/ b.top - b.est >= layout.bottom_margin + 50
    \/ b.top = ContentTopTC /\ b.est <= ContentHeightOf("two_column") - 50

\* the drawing operations of the unit recorded as block b
DrawsOf(b) ==
    { i \in 1..Len(log) :
        /\ IsDraw(log[i]) /\ log[i].idx > 0
        /\ log[i].sec = b.sec /\ log[i].idx = b.idx /\ log[i].page = b.page }

\* C25: in the two-column template drawing a content unit moves the cursor
\* down by at most the estimate its page-break check used; so a unit that
\* passed its check, or was put at the top of a new page and is not taller
\* than a page, ends at or above bottom_margin + 5 pt, and none of its
\* content is drawn below the bottom margin.
C25_UnitsStayWithinTheirEstimate ==
    tmpl = "two_column" =>
        \A k \in 1..Len(log) :
            IsBlock(log[k]) =>
                /\ log[k].top - log[k].bot <= log[k].est
                /\ PlacedWithRoom(log[k]) =>
                      /\ log[k].bot >= layout.bottom_margin + 50
                      /\ \A i \in DrawsOf(log[k]) : log[i].bot >= layout.bottom_margin

-----------------------------------------------------------------------------
(* Pages and the content on them                                           *)

\* a log entry that puts a content unit (entry, paragraph, bullet) or a
\* part of one on the page
IsContent(e) == e.op \in {"text", "bullet"}

\* C26: between two page advances of a render at least one content unit is
\* drawn, so that no page carries only chrome and a section header.
C26_NoPageWithoutContent ==
    \A i, j \in 1..Len(log) :
        (i < j /\ log[i].op = "showPage" /\ log[j].op = "showPage")
        => \E k \in (i + 1)..(j - 1) : IsContent(log[k])

\* log entry k is the first content that section sec draws after entry h
FirstContentAfter(h, k) ==
    /\ h < k
    /\ IsContent(log[k]) /\ log[k].sec = log[h].sec
    /\ \A m \in (h + 1)..(k - 1) : ~(IsContent(log[m]) /\ log[m].sec = log[h].sec)

\* C27: whenever the two-column template draws a section header, the first
\* content unit of that section is drawn on the same page, below the header:
\* no header is left alone at the end of a page.
C27_HeaderIsNotStranded ==
    tmpl = "two_column" =>
        \A h, k \in 1..Len(log) :
            (log[h].op = "header" /\ FirstContentAfter(h, k))
            => /\ log[k].page = log[h].page
               /\ log[k].top <= log[h].bot

-----------------------------------------------------------------------------
(* The page of the aligned top sections, and the graphics state after a    *)
(* page break of the two-column template                                   *)

\* C28: when the profile section is about to be rendered, current_page is
\* still the page on which the technical skills began, page 1; technical
\* skills and profile start on the same page whatever page breaks the
\* technical skills made.
C28_TopSectionsStartOnOnePage ==
    tmpl = "two_column" =>
        /\ pc = "profile" => current_page = 1
        /\ (HasDrawn("skills") /\ HasDrawn("profile")) =>
              log[FirstDrawOf("profile")].page = log[FirstDrawOf("skills")].page

\* log entry k is the first drawing after the page advance at entry i
FirstDrawAfterAdvance(i, k) ==
    /\ i < k
    /\ log[i].op = "showPage"
    /\ IsDraw(log[k])
    /\ \A m \in (i + 1)..(k - 1) : ~IsDraw(log[m]) /\ log[m].op # "showPage"

\* C29: after a page break of the two-column template and its redraw of the
\* chrome the canvas holds the body font and the text colour, so that a
\* bullet drawn first on the new page, for which no colour is set, is
\* painted in the text colour.
C29_DefaultsAfterPageBreak ==
    tmpl = "two_column" =>
        /\ \A i \in 1..Len(log) :
              (log[i].op = "chrome" /\ log[i].page > 1)
              => log[i].fill = "text_color" /\ log[i].font = BodyFont
        /\ \A i, k \in 1..Len(log) :
              (FirstDrawAfterAdvance(i, k) /\ log[k].op = "bullet")
              => log[k].fill = "text_color"

-----------------------------------------------------------------------------
(* The separator lines of wrap_text                                        *)

\* C30: in the result of wrap_text an empty line follows the lines of every
\* non-blank paragraph but the last, whatever its text, also when it reads
\* the same as the last paragraph; with the empty line kept for each blank
\* paragraph, a text that ends in a non-blank paragraph yields one empty
\* line for each paragraph before the last.
C30_SeparatorDependsOnPosition ==
    (/\ call.op = "wrap_text"
     /\ ~IsEmptyText(call.text)
     /\ call.text[Len(call.text)] # << >>)
    => EmptyLinesOf(call.ret) = Len(call.text) - 1

=============================================================================
